---------------------------- MODULE Spec2Model ----------------------------
(***************************************************************************)
(* kastenwesen: a model of the dependency resolver, the lifecycle          *)
(* orchestrator, the lock manager, the status evaluator and the cron       *)
(* change detector (src/kastenwesen.py, src/pidfilemanager.py,             *)
(* src/cron_status.py).                                                    *)
(*                                                                         *)
(* Containers are the numbers 1..NumContainers; the configured list        *)
(* CONFIG_CONTAINERS is <<1, 2, ..., NumContainers>>, so "earlier in the   *)
(* list" is "smaller".  Each engine has its own specification; the         *)
(* variables of the other engines keep their initial value there.          *)
(***************************************************************************)
EXTENDS Integers, Sequences, FiniteSets, TLC

\* ------------------------------------------------------------------ bounds
NumContainers == 3

VARIABLES
    \* configuration (kastenwesen_config.py, read once at process start)
    links,              \* links[c]: the list container c links to
    only_build,         \* only_build[c]
    \* container runtime
    running,            \* the containers is_running() reports live
    \* one invocation of the resolver / orchestrator
    opc,                \* where the invocation is
    action,             \* the command line's action: "stop" or "restart"
    requested_containers,
    ignore_dependencies,
    call,               \* the arguments of a bare ordered_by_dependency call
    ordered_result,     \* ... and what it returned
    stop_containers,    \* stop_many's list (its return value)
    stop_calls,         \* container.stop() calls issued so far, in order
    start_containers,   \* restart_many's list (its return value)
    start_pos,          \* restart_many's position in start_containers
    start_calls,        \* container.start() calls issued so far, in order
    \* the lock manager (pidfilemanager.py): files, the OS, the processes
    lockfile,           \* content of /var/lock/kastenwesen: a PID, 0 when empty
    cmdfile,            \* /var/lock/kastenwesen.cmdline: "absent", "" or a command line
    flock_holder,       \* the process holding flock on the lock file, 0: none
    cmdline,            \* cmdline[p]: /proc/p/cmdline, "none": no such process
    lpc,                \* lpc[p]: where process p is in PidFileManager / main
    old_pid,            \* old_pid[p]: self.old_pid of p's PidFileManager
    old_cmdline,        \* old_cmdline[p]: self.old_cmdline
    lock_result,        \* lock_result[p]: how p's call of lock() ended
    probe_live,         \* was the recorded instance live when p called lock()?
    other_instance_running, \* main's other_instance_running of a read-only p
    locked_at_start,    \* the invocation that held the lock when p started and
                        \* has lived since, 0: none
    \* the status evaluator (AbstractContainer.get_status)
    probe,              \* what the container and the runtime answer to the evaluator
    status,             \* the (status, msg) returned, "none" before the call
    \* the status action (print_status_and_exit)
    name_key,           \* name_key[c]: rank of str.lower(c.name) among the names
    given_containers,   \* the containers whose status is asked for
    other_instance,     \* other_instance_running as passed by main
    status_report_list, \* the reports gathered so far, sorted at the end
    spc,                \* "idle", "query", "exited", "gave_up", "exception"
    exit_code,          \* <<>> while running, <<code>> once the process ended
    \* the monitoring script (cron_status.py)
    monitored,          \* the names kastenwesen status can report
    status_json,        \* the persisted history of snapshots, newest first
    status_history_list,    \* the window the running script looks at
    changes_to_report,  \* what detect_flapping_and_changes returned to it,
    current_status_list,    \* the list sorted by main
    mail_sent,          \* did the run send a mail?
    cron_outcome,       \* "none": no run in progress; "suppressed" or "saved"
    returncode,         \* what kastenwesen status returned to the running script
    shutting_down,      \* what is_shutting_down() returned to it
    cron_runs,          \* the runs made on a history that is about to be cut
    \* the cleanup action (cleanup_containers, cleanup_images) and the runtime
    docker_containers,  \* docker_containers[id]: what docker knows of container id
    docker_images,      \* docker_images[id]: what docker knows of image id
    config_container_ids,   \* the IDs recorded as last instance of a configured container
    min_age_days,
    simulate,
    gpc,                \* "idle", "containers", "images", "done", "crashed"
    listed,             \* the list the running loop walks over
    gpos,               \* how many entries of it the loop has handled
    removed_containers, \* cleanup_containers' result so far
    used_image_ids,     \* cleanup_images: the images of the containers that count
    image_candidates,   \* the images announced as (would be) deleted
    rm_calls,           \* the docker rm / docker rmi commands issued, in order
    rm_warnings,        \* the images whose removal failed with a warning
    \* the start of main: the configuration and the selectors
    config_containers,  \* the list of container objects of kastenwesen_config.py
    name_of,            \* name_of[o]: the name of container object o
    links_of,           \* links_of[o]: the container objects o links to
    arg_containers,     \* arguments["<container>"]
    mpc,                \* "idle", "main", "checked", "selected", "dispatched", "fatal"
    given_objects,      \* given_containers
    operated,           \* the container objects an operation was issued for
    \* main's rebuild and start actions
    action_given,       \* given_containers, as the action receives it
    is_built,           \* the containers that have a local image
    only_missing,       \* --missing
    build_pos,          \* rebuild_many's position in the given list
    build_calls,        \* container.rebuild() calls issued so far, in order
    bpc,                \* "idle", "building", "built", "crashed"
    \* DockerContainer: the records of the configured containers and the runtime
    image_built,        \* image_built[c]: is there a local image c:latest?
    tlinks,             \* tlinks[c]: the containers c links to
    id_file,            \* <c>.running_container_id: an instance, 0 when absent
    name_file,          \* <c>.running_container_name: an instance, 0 when absent
    inst,               \* inst[i]: what docker knows of container instance i
    last,               \* the last method call and how it ended
    command,            \* the action the running kastenwesen process was given
    last_command,       \* the last action that went through to its end
    status_exit,        \* exit code of the last status action, -1 before it
    run_no,             \* how many restart_many runs were begun
    ntests              \* ntests[c]: how many tests container c has

resolverVars == <<call, ordered_result>>
orchVars == <<running, opc, action, requested_containers, ignore_dependencies,
              stop_containers, stop_calls, start_containers, start_pos,
              start_calls>>
configVars == <<links, only_build>>
lockVars == <<lockfile, cmdfile, flock_holder, cmdline, lpc, old_pid, old_cmdline,
              lock_result, probe_live, other_instance_running, locked_at_start>>
evalVars == <<probe, status>>
statusVars == <<name_key, given_containers, other_instance, status_report_list,
                spc, exit_code>>
cronVars == <<monitored, status_json, status_history_list, changes_to_report,
              current_status_list, mail_sent, cron_outcome, returncode,
              shutting_down, cron_runs>>
cleanupVars == <<docker_containers, docker_images, config_container_ids,
                 min_age_days, simulate, gpc, listed, gpos, removed_containers,
                 used_image_ids, image_candidates, rm_calls, rm_warnings>>
startupVars == <<config_containers, name_of, links_of, arg_containers, mpc,
                 given_objects, operated>>
rebuildVars == <<action_given, is_built, only_missing, build_pos, build_calls, bpc>>
instanceVars == <<image_built, tlinks, id_file, name_file, inst, last>>
lifeVars == <<command, last_command, status_exit, run_no, ntests>>
vars == <<configVars, resolverVars, orchVars, lockVars, evalVars, statusVars,
          cronVars, cleanupVars, startupVars, rebuildVars, instanceVars,
          lifeVars>>
\* what the resolver and the orchestrator leave alone
notOrch == <<lockVars, evalVars, statusVars, cronVars, cleanupVars, startupVars,
            rebuildVars, instanceVars,
    lifeVars>>
\* what the lock manager leaves alone
notLock == <<configVars, resolverVars, orchVars, evalVars, statusVars, cronVars,
            cleanupVars, startupVars, rebuildVars,
            instanceVars,
    lifeVars>>
\* what the status evaluator leaves alone
notEval == <<configVars, resolverVars, orchVars, lockVars, statusVars, cronVars,
            cleanupVars, startupVars, rebuildVars,
            instanceVars,
    lifeVars>>
\* what the status action leaves alone
notStatus == <<configVars, resolverVars, orchVars, lockVars, evalVars, cronVars,
              cleanupVars, startupVars, rebuildVars,
            instanceVars,
    lifeVars>>
\* what the monitoring script leaves alone
notCron == <<configVars, resolverVars, orchVars, lockVars, evalVars, statusVars,
            cleanupVars, startupVars, rebuildVars,
            instanceVars,
    lifeVars>>
\* what the cleanup action leaves alone
notCleanup == <<configVars, resolverVars, orchVars, lockVars, evalVars, statusVars,
               cronVars, startupVars, rebuildVars,
            instanceVars,
    lifeVars>>
\* what the start of main leaves alone
notStartup == <<configVars, resolverVars, orchVars, lockVars, evalVars, statusVars,
               cronVars, cleanupVars, rebuildVars,
            instanceVars,
    lifeVars>>
\* what rebuild_many's build loop leaves alone
notRebuild == <<configVars, resolverVars, orchVars, lockVars, evalVars, statusVars,
               cronVars, cleanupVars, startupVars,
            instanceVars,
    lifeVars>>
\* what the rebuild and start actions leave alone when they enter restart_many
notAction == <<lockVars, evalVars, statusVars, cronVars, cleanupVars, startupVars,
            instanceVars,
    lifeVars>>
\* what the methods of DockerContainer leave alone
notInstance == <<configVars, resolverVars, orchVars, lockVars, evalVars, statusVars,
                cronVars, cleanupVars, startupVars, rebuildVars,
    lifeVars>>
notLife == <<configVars, resolverVars, orchVars, lockVars,
    evalVars, statusVars, cronVars, cleanupVars, startupVars, rebuildVars, instanceVars>>

Containers == 1..NumContainers
CONFIG_CONTAINERS == [i \in 1..NumContainers |-> i]

\* ---------------------------------------------------------------- helpers
InSeq(x, s) == \E i \in 1..Len(s) : s[i] = x
SeqSet(s) == {s[i] : i \in 1..Len(s)}
NoDup(s) == \A i, j \in 1..Len(s) : i # j => s[i] # s[j]
Reverse(s) == [i \in 1..Len(s) |-> s[Len(s) + 1 - i]]
IndexOf(x, s) == CHOOSE i \in 1..Len(s) : s[i] = x
\* the members of S in the order of the list `order`
ListOf(S, order) == SelectSeq(order, LAMBDA x : x \in S)
Orders(S) == {s \in [1..Cardinality(S) -> S] : NoDup(s)}
ListsNoDup(S) == UNION {Orders(T) : T \in SUBSET S}

\* check_config: no duplicate entry (entries are the distinct numbers 1..N),
\* every link target strictly earlier in the list
check_config(ls) == \A i \in Containers : \A k \in 1..Len(ls[i]) : ls[i][k] < i
Configs == {ls \in [Containers -> ListsNoDup(1..(NumContainers - 1))] : check_config(ls)}


\* ------------------------------------------------- ordered_by_dependency
\* lines 852-861: `for link in container.links` of the reverse-dependency
\* scan; st = [reverse_dependencies, something_changed]
\* (mutant: only the given containers count, not the dependents found so far)
RECURSIVE ReverseLinkLoop_DirectOnly(_, _, _, _)
ReverseLinkLoop_DirectOnly(container, ls, containers, st) ==
    IF ls = <<>> THEN st
    ELSE LET link == Head(ls)
             st2 == IF InSeq(link, containers)
                    THEN IF container \in st.reverse_dependencies
                         THEN st
                         ELSE [reverse_dependencies |->
                                   st.reverse_dependencies \cup {container},
                               something_changed |-> TRUE]
                    ELSE st
         IN  ReverseLinkLoop_DirectOnly(container, Tail(ls), containers, st2)

RECURSIVE ReverseLinkLoop(_, _, _, _)
ReverseLinkLoop(container, ls, containers, st) ==
    IF ls = <<>> THEN st
    ELSE LET link == Head(ls)
             st2 == IF InSeq(link, containers) \/ link \in st.reverse_dependencies
                    THEN IF container \in st.reverse_dependencies
                         THEN st
                         ELSE [reverse_dependencies |->
                                   st.reverse_dependencies \cup {container},
                               something_changed |-> TRUE]
                    ELSE st
         IN  ReverseLinkLoop(container, Tail(ls), containers, st2)

\* line 851: `for container in config_containers`
RECURSIVE ReverseConfigLoop(_, _, _)
ReverseConfigLoop(i, containers, st) ==
    IF i > Len(CONFIG_CONTAINERS) THEN st
    ELSE ReverseConfigLoop(i + 1, containers,
             ReverseLinkLoop(CONFIG_CONTAINERS[i], links[CONFIG_CONTAINERS[i]],
                             containers, st))

\* lines 846-861: `while something_changed`
RECURSIVE ReverseDependencies(_, _)
ReverseDependencies(containers, reverse_dependencies) ==
    LET st == ReverseConfigLoop(1, containers,
                  [reverse_dependencies |-> reverse_dependencies,
                   something_changed |-> FALSE])
    IN  IF st.something_changed
        THEN ReverseDependencies(containers, st.reverse_dependencies)
        ELSE st.reverse_dependencies

\* lines 873-883: one link of a container in the ordering pass;
\* st = [containers, something_changed, links_satisfied]
\* (mutant: the satisfied test reads the working list, not the ordered one)
LinkStep_ChecksWorkingList(link, ordered_containers, add_dependencies, st) ==
    IF ~InSeq(link, st.containers) /\ ~add_dependencies
    THEN st
    ELSE LET st2 == IF ~InSeq(link, st.containers)
                    THEN [st EXCEPT !.containers = Append(@, link),
                                    !.something_changed = TRUE]
                    ELSE st
         IN  IF InSeq(link, st2.containers)
             THEN [st2 EXCEPT !.links_satisfied = FALSE]
             ELSE st2

LinkStep(link, ordered_containers, add_dependencies, st) ==
    IF ~InSeq(link, st.containers) /\ ~add_dependencies
    THEN st                                   \* cannot be satisfied: continue
    ELSE LET st2 == IF ~InSeq(link, st.containers)
                    THEN [st EXCEPT !.containers = Append(@, link),
                                    !.something_changed = TRUE]
                    ELSE st
         IN  IF ~InSeq(link, ordered_containers)
             THEN [st2 EXCEPT !.links_satisfied = FALSE]
             ELSE st2

\* line 872: `for link in container.links`
RECURSIVE LinkLoop(_, _, _, _)
LinkLoop(ls, ordered_containers, add_dependencies, st) ==
    IF ls = <<>> THEN st
    ELSE LinkLoop(Tail(ls), ordered_containers, add_dependencies,
                  LinkStep(Head(ls), ordered_containers, add_dependencies, st))

\* lines 868-886: the body of `for container in copy(containers)`;
\* st = [containers, ordered_containers, something_changed]
ContainerStep(container, add_dependencies, st) ==
    IF InSeq(container, st.ordered_containers)
    THEN st                                   \* already added, skip this one
    ELSE LET r == LinkLoop(links[container], st.ordered_containers, add_dependencies,
                           [containers |-> st.containers,
                            something_changed |-> st.something_changed,
                            links_satisfied |-> TRUE])
         IN  IF r.links_satisfied
             THEN [containers |-> r.containers,
                   ordered_containers |-> Append(st.ordered_containers, container),
                   something_changed |-> TRUE]
             ELSE [containers |-> r.containers,
                   ordered_containers |-> st.ordered_containers,
                   something_changed |-> r.something_changed]

\* line 867: `for container in copy(containers)`: the copy is fixed while
\* containers grows
RECURSIVE ContainerLoop(_, _, _)
ContainerLoop(snapshot, add_dependencies, st) ==
    IF snapshot = <<>> THEN st
    ELSE ContainerLoop(Tail(snapshot), add_dependencies,
                       ContainerStep(Head(snapshot), add_dependencies, st))

\* lines 863-887: `while something_changed`.  The run stops being followed
\* after PassLimit passes, which is more passes than a run that adds one
\* container to containers or to ordered_containers in each pass can need;
\* a run that is cut there is marked as not terminated.
PassLimit == 2 * NumContainers + 2
RECURSIVE OrderLoopRun(_, _, _, _)
OrderLoopRun(containers, ordered_containers, add_dependencies, passes) ==
    LET st == ContainerLoop(containers, add_dependencies,
                  [containers |-> containers,
                   ordered_containers |-> ordered_containers,
                   something_changed |-> FALSE])
        out == [containers |-> st.containers,
                ordered_containers |-> st.ordered_containers,
                passes |-> passes + 1,
                terminated |-> ~st.something_changed]
    IN  IF st.something_changed /\ passes + 1 < PassLimit
        THEN OrderLoopRun(st.containers, st.ordered_containers, add_dependencies,
                          passes + 1)
        ELSE out

\* line 887: return ordered_containers
OrderLoop(containers, ordered_containers, add_dependencies) ==
    OrderLoopRun(containers, ordered_containers, add_dependencies, 0).ordered_containers

\* (mutant: the listed set comes before the given containers)
WorkingList_SetFirst(containers, add_reverse_dependencies, set_order) ==
    IF add_reverse_dependencies
    THEN set_order \o containers
    ELSE containers

\* lines 844-862: the working list.  list(reverse_dependencies) lists a Python
\* set of objects, whose iteration order is not determined by the program:
\* set_order is the order the interpreter happens to produce.
WorkingList(containers, add_reverse_dependencies, set_order) ==
    IF add_reverse_dependencies
    THEN containers \o set_order
    ELSE containers

\* the orders list(reverse_dependencies) can come out in
ContainerLists == ListsNoDup(Containers)
SetOrders(containers, add_reverse_dependencies) ==
    IF add_reverse_dependencies
    THEN LET reverse_dependencies ==
                 ReverseDependencies(containers, SeqSet(containers))
         IN  {order \in ContainerLists : SeqSet(order) = reverse_dependencies}
    ELSE {<<>>}

ordered_by_dependency(containers, add_dependencies, add_reverse_dependencies, set_order) ==
    OrderLoop(WorkingList(containers, add_reverse_dependencies, set_order),
              <<>>, add_dependencies)

\* what main() hands to the orchestrator: the configured containers named on
\* the command line, in configuration order (lines 1204-1213)
GivenLists == {ListOf(S, CONFIG_CONTAINERS) : S \in SUBSET Containers}

\* ------------------------------------------------------- the lock manager
NumPids == 2
Pids == 1..NumPids
\* command lines: a mutating action, a read-only one, an unrelated program
MutatingCmdlines == {"kastenwesen restart"}
ReadOnlyCmdlines == {"kastenwesen status"}
OtherCmdlines == {"other"}

\* no process, no lock file yet
LockIdle ==
    /\ lockfile = 0
    /\ cmdfile = "absent"
    /\ flock_holder = 0
    /\ cmdline = [p \in Pids |-> "none"]
    /\ lpc = [p \in Pids |-> "none"]
    /\ old_pid = [p \in Pids |-> -1]
    /\ old_cmdline = [p \in Pids |-> "unset"]
    /\ lock_result = [p \in Pids |-> "none"]
    /\ locked_at_start = [p \in Pids |-> 0]
    /\ probe_live = [p \in Pids |-> FALSE]
    /\ other_instance_running = [p \in Pids |-> FALSE]

\* ---------------------------------------------------- the status evaluator
MaxTests == 2
MaxTime == 3
DEFAULT_STARTUP_GRACETIME == 2

\* time_running(): None, seconds since the start, or float('inf')
NoTime == [kind |-> "None", seconds |-> 0]
TimesRunning ==
    {NoTime, [kind |-> "inf", seconds |-> 0]}
        \cup [kind : {"seconds"}, seconds : 0..MaxTime]

\* the results of the container's tests, in the order of self.tests
TestResults == UNION {[1..n -> BOOLEAN] : n \in 0..MaxTests}

Probes ==
    [is_built : BOOLEAN,
     only_build : BOOLEAN,
     tests : TestResults,
     is_running : BOOLEAN,
     time_running : TimesRunning,
     startup_gracetime : (0..MaxTime) \cup {DEFAULT_STARTUP_GRACETIME}]

NoProbe ==
    [is_built |-> TRUE, only_build |-> TRUE, tests |-> <<>>, is_running |-> FALSE,
     time_running |-> NoTime, startup_gracetime |-> DEFAULT_STARTUP_GRACETIME]

NoStatus == [status |-> "none", msg |-> ""]

\* no call of get_status
EvalIdle ==
    /\ probe = NoProbe
    /\ status = NoStatus

\* no status action
StatusIdle ==
    /\ name_key = [c \in Containers |-> c]
    /\ given_containers = <<>>
    /\ other_instance = FALSE
    /\ status_report_list = <<>>
    /\ spc = "idle"
    /\ exit_code = <<>>

\* ------------------------------------------------------ the docker runtime
NumDockerContainers == 2
NumImages == 2
\* ages, in days
MaxAge == 1
ContainerIds == 1..NumDockerContainers
ImageIds == 1..NumImages

\* what docker reports of a container: there is none with this ID ("none"),
\* it is running, it has exited (FinishedAt is a date, finished days ago; late:
\* it was created after it finished), or it was created and never ran
\* (FinishedAt is the pseudo-date); gone: docker rm has removed it since
NoContainer ==
    [state |-> "none", finished |-> 0, late |-> FALSE, image |-> 1, gone |-> FALSE]
ContainerRecords ==
    {NoContainer}
        \cup [state : {"running", "created"}, finished : {0}, late : {FALSE},
              image : ImageIds, gone : {FALSE}]
        \cup [state : {"exited"}, finished : 0..MaxAge, late : BOOLEAN,
              image : ImageIds, gone : {FALSE}]

\* what docker reports of an image: none, tagged, dangling (untagged), listed
\* as dangling although it has a tag ("mistagged"); created days ago; gone:
\* docker rmi has removed it since
NoImage == [state |-> "none", created |-> 0, gone |-> FALSE]
ImageRecords ==
    {NoImage, [state |-> "tagged", created |-> 0, gone |-> FALSE],
     [state |-> "mistagged", created |-> 0, gone |-> FALSE]}
        \cup [state : {"dangling"}, created : 0..MaxAge, gone : {FALSE}]

\* no cleanup, an empty runtime
CleanupIdle ==
    /\ docker_containers = [c \in ContainerIds |-> NoContainer]
    /\ docker_images = [i \in ImageIds |-> NoImage]
    /\ config_container_ids = {}
    /\ min_age_days = 0
    /\ simulate = FALSE
    /\ gpc = "idle"
    /\ listed = <<>>
    /\ gpos = 0
    /\ removed_containers = <<>>
    /\ used_image_ids = {}
    /\ image_candidates = <<>>
    /\ rm_calls = <<>>
    /\ rm_warnings = {}

\* ------------------------------------------------------ the start of main
NumObjects == 2
Objects == 1..NumObjects
MaxArgs == 2
\* the names a configuration gives its containers, and one more
ConfigNames == {"db", "web"}
ArgNames == ConfigNames \cup {"nosuch"}

\* main is not running
StartupIdle ==
    /\ config_containers = <<>>
    /\ name_of = [o \in Objects |-> "db"]
    /\ links_of = [o \in Objects |-> <<>>]
    /\ arg_containers = <<>>
    /\ mpc = "idle"
    /\ given_objects = <<>>
    /\ operated = {}

\* no rebuild or start action
RebuildIdle ==
    /\ action_given = <<>>
    /\ is_built = {}
    /\ only_missing = FALSE
    /\ build_pos = 0
    /\ build_calls = <<>>
    /\ bpc = "idle"

\* ------------------------------------------- the instances of the containers
NumTracked == 2
NumInstances == 3
Tracked == 1..NumTracked
Instances == 1..NumInstances
\* what docker knows of an instance: nothing yet ("free"), a container that
\* is not running any more ("dead"), or a running container with its image
\* and whether it carries the label de.fau.fablab.kastenwesen.temporary
FreeInstance == [state |-> "free", image |-> 0, temporary |-> FALSE]
DeadInstance == [state |-> "dead", image |-> 0, temporary |-> FALSE]
LiveInstance(c, temporary) == [state |-> "live", image |-> c, temporary |-> temporary]
NoMethod ==
    [method |-> "none", container |-> 0, result |-> "none", wired |-> {},
     warned |-> {}]

\* no container was ever started
InstanceIdle ==
    /\ image_built = [c \in Tracked |-> FALSE]
    /\ tlinks = [c \in Tracked |-> <<>>]
    /\ id_file = [c \in Tracked |-> 0]
    /\ name_file = [c \in Tracked |-> 0]
    /\ inst = [i \in Instances |-> FreeInstance]
    /\ last = NoMethod

\* no kastenwesen process is running, none has run
LifeIdle ==
    /\ command = "none"
    /\ last_command = "none"
    /\ status_exit = -1
    /\ run_no = 0
    /\ ntests = [c \in Containers |-> 0]

\* no monitoring run yet, no status.json
CronIdle ==
    /\ monitored = {}
    /\ status_json = <<>>
    /\ status_history_list = <<>>
    /\ changes_to_report = FALSE
    /\ current_status_list = <<>>
    /\ mail_sent = FALSE
    /\ cron_outcome = "none"
    /\ returncode = 0
    /\ shutting_down = FALSE
    /\ cron_runs = 0

\* --------------------------------------------- specification: the resolver
NoCall == [called |-> FALSE]

ConfigInit ==
    /\ links \in Configs
    /\ only_build \in [Containers -> BOOLEAN]

OrchIdle ==
    /\ running = {}
    /\ opc = "idle"
    /\ action = "none"
    /\ requested_containers = <<>>
    /\ ignore_dependencies = FALSE
    /\ stop_containers = <<>>
    /\ stop_calls = <<>>
    /\ start_containers = <<>>
    /\ start_pos = 0
    /\ start_calls = <<>>

ResolverIdle ==
    /\ call = NoCall
    /\ ordered_result = <<>>

InitResolver ==
    /\ links \in Configs
    /\ only_build = [c \in Containers |-> FALSE]
    /\ ResolverIdle
    /\ OrchIdle
    /\ LockIdle
    /\ EvalIdle
    /\ StatusIdle
    /\ CronIdle
    /\ CleanupIdle
    /\ StartupIdle
    /\ RebuildIdle
    /\ InstanceIdle
    /\ LifeIdle

\* one call of ordered_by_dependency
Resolve ==
    /\ call = NoCall
    /\ \E containers \in GivenLists, add_dependencies \in BOOLEAN,
          add_reverse_dependencies \in BOOLEAN :
       \E set_order \in SetOrders(containers, add_reverse_dependencies) :
          LET run == OrderLoopRun(WorkingList(containers, add_reverse_dependencies,
                                              set_order),
                                  <<>>, add_dependencies, 0)
          IN  /\ call' = [called |-> TRUE, containers |-> containers,
                          add_dependencies |-> add_dependencies,
                          add_reverse_dependencies |-> add_reverse_dependencies,
                          set_order |-> set_order,
                          working |-> run.containers,
                          passes |-> run.passes,
                          terminated |-> run.terminated]
              /\ ordered_result' = ordered_by_dependency(containers, add_dependencies,
                                       add_reverse_dependencies, set_order)
    /\ UNCHANGED <<notOrch, configVars, orchVars>>

NextResolver == Resolve

SpecResolver == InitResolver /\ [][NextResolver]_vars

\* C1: for every configuration that satisfies check_config,
\* ordered_by_dependency(all containers, add_dependencies=True) returns a
\* permutation of its input in which every container comes after all the
\* containers it links to.
IsAllCall ==
    /\ call.called
    /\ call.containers = CONFIG_CONTAINERS
    /\ call.add_dependencies
    /\ ~call.add_reverse_dependencies

AfterItsLinks(s) ==
    \A i \in 1..Len(s) : \A k \in 1..Len(links[s[i]]) :
        \E j \in 1..(i - 1) : s[j] = links[s[i]][k]

C1_OrderIsValidPermutation ==
    IsAllCall =>
        /\ Len(ordered_result) = Len(call.containers)
        /\ SeqSet(ordered_result) = SeqSet(call.containers)
        /\ NoDup(ordered_result)
        /\ AfterItsLinks(ordered_result)

\* a chain 3 -> 2 -> 1 was ordered
C1_Witness ==
    /\ IsAllCall
    /\ InSeq(2, links[3]) /\ InSeq(1, links[2])
    /\ Len(ordered_result) = NumContainers


\* ------------------------------------------- specification: stop / restart
\* The state before an invocation: any configuration check_config accepts,
\* any set of live containers (only-build containers are never started).
OrchStart ==
    /\ running \in SUBSET {c \in Containers : ~only_build[c]}
    /\ opc = "idle"
    /\ action = "none"
    /\ requested_containers = <<>>
    /\ ignore_dependencies = FALSE
    /\ stop_containers = <<>>
    /\ stop_calls = <<>>
    /\ start_containers = <<>>
    /\ start_pos = 0
    /\ start_calls = <<>>

InitOrch ==
    /\ ConfigInit
    /\ ResolverIdle
    /\ OrchStart
    /\ LockIdle
    /\ EvalIdle
    /\ StatusIdle
    /\ CronIdle
    /\ CleanupIdle
    /\ StartupIdle
    /\ RebuildIdle
    /\ InstanceIdle
    /\ LifeIdle

\* (mutant: the start order is not reversed)
StopList_NotReversed(requested, ignore, set_order) ==
    ordered_by_dependency(requested, FALSE, ~ignore, set_order)

\* stop_many, line 941: the list of containers to stop
StopList(requested, ignore, set_order) ==
    Reverse(ordered_by_dependency(requested, FALSE, ~ignore, set_order))

\* (mutant: the containers that link to a stopped one join the start list)
StartList_WithDependents(stopped) ==
    ordered_by_dependency(stopped, TRUE, TRUE,
        CHOOSE order \in SetOrders(stopped, TRUE) : TRUE)

\* restart_many, line 901: the list of containers to start
StartList(stopped) ==
    ordered_by_dependency(stopped, TRUE, FALSE, <<>>)

\* (mutant: every container of the list that is not only-build is started)
StartsContainer_WithoutLivenessTest(container) ==
    ~only_build[container]

\* restart_many, lines 911-914: is start() called on this container?
StartsContainer(container) ==
    /\ ~only_build[container]
    /\ (InSeq(container, stop_containers) \/ container \notin running)

\* main, lines 1229-1230 and 1245-1246, entering stop_many (lines 941-953).
\* Whether the command is stop or restart decides only what follows
\* stop_many's return: stop_many reads message_restart for its log text alone.
Invoke ==
    /\ opc = "idle"
    /\ \E requested \in GivenLists, ignore \in BOOLEAN :
       \E set_order \in SetOrders(requested, ~ignore) :
          /\ requested_containers' = requested
          /\ ignore_dependencies' = ignore
          /\ stop_containers' = StopList(requested, ignore, set_order)
    /\ opc' = "stopping"
    /\ UNCHANGED <<notOrch, configVars, resolverVars, running, action, stop_calls,
                   start_containers, start_pos, start_calls>>

\* stop_many, lines 954-955: container.stop() on the next container
StopStep ==
    /\ opc = "stopping"
    /\ Len(stop_calls) < Len(stop_containers)
    /\ LET container == stop_containers[Len(stop_calls) + 1]
       IN  /\ running' = running \ {container}
           /\ stop_calls' = Append(stop_calls, container)
    /\ UNCHANGED <<notOrch, configVars, resolverVars, opc, action, requested_containers,
                   ignore_dependencies, stop_containers, start_containers,
                   start_pos, start_calls>>

\* stop_many, line 956, returns stop_containers to main's stop action
\* (line 1246), which ends
StopReturn ==
    /\ opc = "stopping"
    /\ Len(stop_calls) = Len(stop_containers)
    /\ action' = "stop"
    /\ opc' = "done"
    /\ UNCHANGED <<notOrch, configVars, resolverVars, running, requested_containers,
                   ignore_dependencies, stop_containers, stop_calls,
                   start_containers, start_pos, start_calls>>

\* stop_many, line 956, returns stop_containers to restart_many (line 899),
\* which orders the containers to start (lines 901-908)
RestartOrder ==
    /\ opc = "stopping"
    /\ Len(stop_calls) = Len(stop_containers)
    /\ action' = "restart"
    /\ opc' = "starting"
    /\ start_containers' = StartList(stop_containers)
    /\ UNCHANGED <<notOrch, configVars, resolverVars, running, requested_containers,
                   ignore_dependencies, stop_containers, stop_calls, start_pos,
                   start_calls>>

\* restart_many, lines 910-914: a container that is not started
StartSkip ==
    /\ opc = "starting"
    /\ start_pos < Len(start_containers)
    /\ ~StartsContainer(start_containers[start_pos + 1])
    /\ start_pos' = start_pos + 1
    /\ UNCHANGED <<notOrch, configVars, resolverVars, running, opc, action,
                   requested_containers, ignore_dependencies, stop_containers,
                   stop_calls, start_containers, start_calls>>

\* restart_many, lines 914-916, and DockerContainer.start, lines 620-647, with
\* an image
StartOk ==
    /\ opc = "starting"
    /\ start_pos < Len(start_containers)
    /\ LET container == start_containers[start_pos + 1]
       IN  /\ StartsContainer(container)
           /\ container \notin running
           /\ start_calls' = Append(start_calls, container)
           /\ running' = running \cup {container}
    /\ start_pos' = start_pos + 1
    /\ UNCHANGED <<notOrch, configVars, resolverVars, opc, action, requested_containers,
                   ignore_dependencies, stop_containers, stop_calls,
                   start_containers>>

\* DockerContainer.start, lines 624-625: the container is live already; the
\* exception is not caught
StartAlreadyRunning ==
    /\ opc = "starting"
    /\ start_pos < Len(start_containers)
    /\ LET container == start_containers[start_pos + 1]
       IN  /\ StartsContainer(container)
           /\ container \in running
           /\ start_calls' = Append(start_calls, container)
    /\ opc' = "crashed"
    /\ UNCHANGED <<notOrch, configVars, resolverVars, running, action, requested_containers,
                   ignore_dependencies, stop_containers, stop_calls,
                   start_containers, start_pos>>

\* (mutant: ImageNotFound is a warning whatever the flag is)
ImageNotFoundIsFatal_Never(ignore) == FALSE
\* restart_many, lines 917-922: `if ignore_dependencies` warn, else print_fatal
ImageNotFoundIsFatal(ignore) == ~ignore

\* DockerContainer.start, lines 622-623, raises ImageNotFound (the runtime has
\* no image); restart_many, lines 917-922: a warning with
\* --ignore-dependencies, print_fatal without
StartImageNotFound ==
    /\ opc = "starting"
    /\ start_pos < Len(start_containers)
    /\ LET container == start_containers[start_pos + 1]
       IN  /\ StartsContainer(container)
           /\ start_calls' = Append(start_calls, container)
    /\ IF ImageNotFoundIsFatal(ignore_dependencies)
       THEN /\ start_pos' = start_pos
            /\ opc' = "fatal"
       ELSE /\ start_pos' = start_pos + 1
            /\ opc' = opc
    /\ UNCHANGED <<notOrch, configVars, resolverVars, running, action, requested_containers,
                   ignore_dependencies, stop_containers, stop_calls,
                   start_containers>>

\* restart_many, line 923: return start_containers
StartReturn ==
    /\ opc = "starting"
    /\ start_pos = Len(start_containers)
    /\ opc' = "done"
    /\ UNCHANGED <<notOrch, configVars, resolverVars, running, action, requested_containers,
                   ignore_dependencies, stop_containers, stop_calls,
                   start_containers, start_pos, start_calls>>

NextOrch ==
    \/ Invoke
    \/ StopStep
    \/ StopReturn
    \/ RestartOrder
    \/ StartSkip
    \/ StartOk
    \/ StartImageNotFound
    \/ StartReturn

SpecOrch == InitOrch /\ [][NextOrch]_vars

\* ------------------------------------------------ specification: stop alone
\* main's stop action.  stop_many and DockerContainer.stop never read
\* only_build, so one value of it stands for all.
InitStop ==
    /\ links \in Configs
    /\ only_build = [c \in Containers |-> FALSE]
    /\ ResolverIdle
    /\ OrchStart
    /\ LockIdle
    /\ EvalIdle
    /\ StatusIdle
    /\ CronIdle
    /\ CleanupIdle
    /\ StartupIdle
    /\ RebuildIdle
    /\ InstanceIdle
    /\ LifeIdle

NextStop ==
    \/ Invoke
    \/ StopStep
    \/ StopReturn

SpecStop == InitStop /\ [][NextStop]_vars


\* ------------------------------------------------- claims: stop / restart
\* the containers c links to, directly or transitively
RECURSIVE Dependencies(_)
Dependencies(c) ==
    SeqSet(links[c]) \cup UNION {Dependencies(d) : d \in SeqSet(links[c])}
\* the containers that link, directly or transitively, to a member of S
Dependents(S) == {c \in Containers : Dependencies(c) \cap S # {}}

StopLoopComplete == opc = "stopping" /\ Len(stop_calls) = Len(stop_containers)

\* C2: stop_many issues the stops in the reverse of the start order: when A
\* and B are both in the stop set and A links directly or transitively to B,
\* stop is issued on A before it is issued on B.
C2_DependentsStoppedFirst ==
    /\ \A j \in 1..Len(stop_calls) : \A a \in SeqSet(stop_containers) :
           stop_calls[j] \in Dependencies(a)
               => \E i \in 1..(j - 1) : stop_calls[i] = a
    /\ \A j \in 1..Len(stop_calls) : stop_calls[j] = stop_containers[j]

\* the chain 3 -> 2 -> 1 was stopped as 3, 2, 1
C2_Witness ==
    /\ StopLoopComplete
    /\ InSeq(2, links[3]) /\ InSeq(1, links[2])
    /\ stop_calls = <<3, 2, 1>>
    /\ requested_containers = <<1>>

StartPhase == opc \in {"starting", "fatal"} \/ (opc = "done" /\ action = "restart")

C4_StartListInv ==
    /\ start_calls # <<>> => StartPhase
    /\ StartPhase =>
           /\ stop_calls = stop_containers
           /\ NoDup(start_containers)
           /\ SeqSet(start_containers) =
                  SeqSet(stop_containers)
                      \cup UNION {Dependencies(c) : c \in SeqSet(stop_containers)}
           /\ AfterItsLinks(start_containers)
           /\ \A i \in 1..Len(start_calls) : ~only_build[start_calls[i]]
    /\ (opc = "done" /\ action = "restart") => start_pos = Len(start_containers)

C4_WalkStep ==
    (opc = "starting" /\ start_pos < Len(start_containers)) =>
        LET container == start_containers[start_pos + 1]
        IN  /\ stop_calls' = stop_calls
            /\ IF ~only_build[container]
                  /\ (InSeq(container, stop_containers) \/ container \notin running)
               THEN start_calls' = Append(start_calls, container)
               ELSE start_calls' = start_calls /\ running' = running
            /\ start_pos' \in {start_pos, start_pos + 1}
            /\ start_pos' = start_pos => opc' = "fatal"

C4_RestartStartsWhatIsNeeded == []C4_StartListInv /\ [][C4_WalkStep]_vars

\* restarting 2, which links to the live container 1 and which the only-build
\* container 3 links to: 1 was not restarted, 3 was not started, 2 was
C4_Witness ==
    /\ opc = "done" /\ action = "restart"
    /\ requested_containers = <<2>>
    /\ ~ignore_dependencies
    /\ InSeq(1, links[2]) /\ InSeq(2, links[3])
    /\ only_build[3]
    /\ start_containers = <<1, 2, 3>>
    /\ start_calls = <<2>>
    /\ running = {1, 2}


\* ----------------------------------------- specification: the lock manager
\* main: lock_needed = not any(read-only argument)
lock_needed(c) == c \notin ReadOnlyCmdlines

\* int(self.lockfile.read()); ValueError on the empty file: -1
ParsePid(content) == IF content \in Pids THEN content ELSE -1

\* open("/proc/<pid>/cmdline").read(), "IOError" if there is no such process
ReadProcCmdline(pid) ==
    IF pid \in Pids /\ cmdline[pid] # "none" THEN cmdline[pid] ELSE "IOError"

\* (mutant: any live process with the recorded PID counts as the instance)
another_instance_is_running_PidOnly(p) ==
    ReadProcCmdline(old_pid[p]) # "IOError"

\* PidFileManager.another_instance_is_running
another_instance_is_running(p) ==
    LET c == ReadProcCmdline(old_pid[p])
    IN  IF c = "IOError" THEN FALSE ELSE c = old_cmdline[p]

\* (mutant: the lock is taken without asking the OS)
FlockSucceeds_Always(p) == TRUE

\* flock(fd, LOCK_EX | LOCK_NB) succeeds unless another open file holds it
FlockSucceeds(p) == flock_holder = 0

\* the recorded PID is a live process whose command line is the recorded one
RecordedInstanceLive(p) ==
    \E q \in Pids :
        /\ q = old_pid[p]
        /\ cmdline[q] # "none"
        /\ cmdline[q] = old_cmdline[p]

\* the invocation whose lock() has returned and that is still alive, 0: none
LockHolder ==
    IF \E q \in Pids : lpc[q] = "locked"
    THEN CHOOSE q \in Pids : lpc[q] = "locked"
    ELSE 0

\* the end of process p: its PidFileManager is gone, the OS drops its flock
Terminated(p) ==
    /\ cmdline' = [cmdline EXCEPT ![p] = "none"]
    /\ lpc' = [lpc EXCEPT ![p] = "none"]
    /\ old_pid' = [old_pid EXCEPT ![p] = -1]
    /\ old_cmdline' = [old_cmdline EXCEPT ![p] = "unset"]
    /\ other_instance_running' = [other_instance_running EXCEPT ![p] = FALSE]
    /\ flock_holder' = IF flock_holder = p THEN 0 ELSE flock_holder
    /\ locked_at_start' =
           [x \in Pids |-> IF x = p \/ locked_at_start[x] = p
                           THEN 0 ELSE locked_at_start[x]]

\* a kastenwesen invocation starts as process p
Spawn(p, c) ==
    /\ cmdline[p] = "none"
    /\ cmdline' = [cmdline EXCEPT ![p] = c]
    /\ lpc' = [lpc EXCEPT ![p] = "init"]
    /\ lock_result' = [lock_result EXCEPT ![p] = "none"]
    /\ probe_live' = [probe_live EXCEPT ![p] = FALSE]
    /\ locked_at_start' = [locked_at_start EXCEPT ![p] = LockHolder]
    /\ UNCHANGED <<lockfile, cmdfile, flock_holder, old_pid, old_cmdline,
                   other_instance_running, notLock>>

\* an unrelated program gets PID p
SpawnOther(p, c) ==
    /\ cmdline[p] = "none"
    /\ cmdline' = [cmdline EXCEPT ![p] = c]
    /\ lpc' = [lpc EXCEPT ![p] = "other"]
    /\ lock_result' = [lock_result EXCEPT ![p] = "none"]
    /\ probe_live' = [probe_live EXCEPT ![p] = FALSE]
    /\ locked_at_start' = [locked_at_start EXCEPT ![p] = LockHolder]
    /\ UNCHANGED <<lockfile, cmdfile, flock_holder, old_pid, old_cmdline,
                   other_instance_running, notLock>>

\* __init__: open the lock file "a+" and read the PID
ReadLockfile(p) ==
    /\ lpc[p] = "init"
    /\ old_pid' = [old_pid EXCEPT ![p] = ParsePid(lockfile)]
    /\ IF ParsePid(lockfile) = -1
          THEN /\ old_cmdline' = [old_cmdline EXCEPT ![p] = "<unknown>"]
               /\ lpc' = [lpc EXCEPT ![p] = "constructed"]
          ELSE /\ old_cmdline' = old_cmdline
               /\ lpc' = [lpc EXCEPT ![p] = "read_cmdline"]
    /\ UNCHANGED <<lockfile, cmdfile, flock_holder, cmdline, lock_result,
                   probe_live, other_instance_running, locked_at_start, notLock>>

\* __init__: a valid PID was found, read the command-line record
ReadCmdlineFile(p) ==
    /\ lpc[p] = "read_cmdline"
    /\ cmdfile # "absent"
    /\ old_cmdline' = [old_cmdline EXCEPT ![p] = cmdfile]
    /\ lpc' = [lpc EXCEPT ![p] = "constructed"]
    /\ UNCHANGED <<lockfile, cmdfile, flock_holder, cmdline, old_pid,
                   lock_result, probe_live, other_instance_running,
                   locked_at_start, notLock>>

\* __init__: the command-line record cannot be opened, the exception ends p
ReadCmdlineFileError(p) ==
    /\ lpc[p] = "read_cmdline"
    /\ cmdfile = "absent"
    /\ Terminated(p)
    /\ UNCHANGED <<lockfile, cmdfile, lock_result, probe_live, notLock>>

\* lock(): the liveness probe; AlreadyRunning ends p through print_fatal
LockProbe(p) ==
    /\ lpc[p] = "constructed"
    /\ lock_needed(cmdline[p])
    /\ probe_live' = [probe_live EXCEPT ![p] = RecordedInstanceLive(p)]
    /\ IF another_instance_is_running(p)
          THEN /\ lock_result' = [lock_result EXCEPT ![p] = "AlreadyRunning"]
               /\ Terminated(p)
          ELSE /\ lpc' = [lpc EXCEPT ![p] = "flock"]
               /\ UNCHANGED <<lock_result, cmdline, old_pid, old_cmdline,
                              other_instance_running, locked_at_start, flock_holder>>
    /\ UNCHANGED <<lockfile, cmdfile, notLock>>

\* lock(): flock; when it fails the generic exception ends p
Flock(p) ==
    /\ lpc[p] = "flock"
    /\ IF FlockSucceeds(p)
          THEN /\ flock_holder' = p
               /\ lpc' = [lpc EXCEPT ![p] = "truncate"]
               /\ UNCHANGED <<lock_result, cmdline, old_pid, old_cmdline,
                              other_instance_running, locked_at_start>>
          ELSE /\ lock_result' = [lock_result EXCEPT ![p] = "LockError"]
               /\ Terminated(p)
    /\ UNCHANGED <<lockfile, cmdfile, probe_live, notLock>>

\* lock(): seek(0), truncate()
Truncate(p) ==
    /\ lpc[p] = "truncate"
    /\ lockfile' = 0
    /\ lpc' = [lpc EXCEPT ![p] = "write_pid"]
    /\ UNCHANGED <<cmdfile, flock_holder, cmdline, old_pid, old_cmdline,
                   lock_result, probe_live, other_instance_running,
                   locked_at_start, notLock>>

\* lock(): write(str(os.getpid())), flush()
WritePid(p) ==
    /\ lpc[p] = "write_pid"
    /\ lockfile' = p
    /\ lpc' = [lpc EXCEPT ![p] = "open_cmdline"]
    /\ UNCHANGED <<cmdfile, flock_holder, cmdline, old_pid, old_cmdline,
                   lock_result, probe_live, other_instance_running,
                   locked_at_start, notLock>>

\* lock(): open(cmdline_filename, "w") creates or empties the record
OpenCmdline(p) ==
    /\ lpc[p] = "open_cmdline"
    /\ cmdfile' = ""
    /\ lpc' = [lpc EXCEPT ![p] = "write_cmdline"]
    /\ UNCHANGED <<lockfile, flock_holder, cmdline, old_pid, old_cmdline,
                   lock_result, probe_live, other_instance_running,
                   locked_at_start, notLock>>

\* lock(): write /proc/self/cmdline, close; lock() returns
WriteCmdline(p) ==
    /\ lpc[p] = "write_cmdline"
    /\ cmdfile' = ReadProcCmdline(p)
    /\ lpc' = [lpc EXCEPT ![p] = "locked"]
    /\ lock_result' = [lock_result EXCEPT ![p] = "ok"]
    /\ UNCHANGED <<lockfile, flock_holder, cmdline, old_pid, old_cmdline,
                   probe_live, other_instance_running, locked_at_start, notLock>>

\* main, read-only action: probe, warn and continue
ProbeReadOnly(p) ==
    /\ lpc[p] = "constructed"
    /\ ~lock_needed(cmdline[p])
    /\ other_instance_running' =
           [other_instance_running EXCEPT ![p] = another_instance_is_running(p)]
    /\ lpc' = [lpc EXCEPT ![p] = "readonly"]
    /\ UNCHANGED <<lockfile, cmdfile, flock_holder, cmdline, old_pid,
                   old_cmdline, lock_result, probe_live, locked_at_start,
                   notLock>>

\* process p ends (it finished, or it was killed wherever it was)
Exit(p) ==
    /\ lpc[p] # "none"
    /\ Terminated(p)
    /\ UNCHANGED <<lockfile, cmdfile, lock_result, probe_live, notLock>>

InitLock ==
    /\ links = [c \in Containers |-> <<>>]
    /\ only_build = [c \in Containers |-> FALSE]
    /\ ResolverIdle
    /\ OrchStart
    /\ running = {}
    /\ LockIdle
    /\ EvalIdle
    /\ StatusIdle
    /\ CronIdle
    /\ CleanupIdle
    /\ StartupIdle
    /\ RebuildIdle
    /\ InstanceIdle
    /\ LifeIdle

NextLock ==
    \E p \in Pids :
        \/ \E c \in MutatingCmdlines \cup ReadOnlyCmdlines : Spawn(p, c)
        \/ \E c \in OtherCmdlines : SpawnOther(p, c)
        \/ ReadLockfile(p)
        \/ ReadCmdlineFile(p)
        \/ ReadCmdlineFileError(p)
        \/ LockProbe(p)
        \/ Flock(p)
        \/ Truncate(p)
        \/ WritePid(p)
        \/ OpenCmdline(p)
        \/ WriteCmdline(p)
        \/ ProbeReadOnly(p)
        \/ Exit(p)

SpecLock == InitLock /\ [][NextLock]_vars

\* C5: at most one live process has returned successfully from lock() at any
\* time, whatever the interleaving of construction, probe, flock and writes.
C5_MutualExclusion ==
    \A p, q \in Pids : lpc[p] = "locked" /\ lpc[q] = "locked" => p = q

\* a second invocation passed its probe while the first was taking the lock
C5_Witness ==
    \E p, q \in Pids :
        /\ p # q
        /\ lpc[p] = "locked"
        /\ lpc[q] = "flock"
        /\ lock_needed(cmdline[q])

\* the call of lock() by p has returned or raised
LockCallEnded(p) == lock_result[p] # "none"

\* C6 as stated: lock() raises AlreadyRunning when the recorded instance is
\* live and succeeds in every other case.
C6_StaleLockAlwaysSucceeds ==
    \A p \in Pids :
        LockCallEnded(p) =>
            IF probe_live[p] THEN lock_result[p] = "AlreadyRunning"
                             ELSE lock_result[p] = "ok"

\* the outcome of every ended call of lock()
C6_Outcome ==
    \A p \in Pids :
        LockCallEnded(p) =>
            /\ probe_live[p] <=> lock_result[p] = "AlreadyRunning"
            /\ ~probe_live[p] => lock_result[p] \in {"ok", "LockError"}

\* what the step that ends a call of lock() does to the two records
C6_Records ==
    \A p \in Pids :
        lock_result[p] = "none" /\ lock_result'[p] # "none" =>
            /\ lock_result'[p] = "AlreadyRunning" =>
                   /\ RecordedInstanceLive(p)
                   /\ lockfile' = lockfile /\ cmdfile' = cmdfile
            /\ lock_result'[p] = "LockError" =>
                   /\ flock_holder \notin {0, p}
                   /\ lockfile' = lockfile /\ cmdfile' = cmdfile
            /\ lock_result'[p] = "ok" =>
                   /\ flock_holder = p
                   /\ lockfile' = p
                   /\ cmdfile' = cmdline[p]

\* C6: lock() raises AlreadyRunning, leaving both records unchanged, exactly
\* when the recorded PID is a live process whose current command line equals
\* the recorded one; otherwise it takes the OS lock and overwrites both records
\* with the caller's PID and command line, unless another process holds the
\* OS lock: then it fails with the generic exception, the records unchanged.
C6_LockOutcome == []C6_Outcome /\ [][C6_Records]_vars

\* the recorded PID was reused by a process with a different command line
\* and lock() succeeded, the records now naming the caller
C6_Witness ==
    \E p, q \in Pids :
        /\ p # q
        /\ lpc[p] = "locked"
        /\ lock_result[p] = "ok"
        /\ ~probe_live[p]
        /\ old_pid[p] = q
        /\ cmdline[q] # "none"
        /\ cmdline[q] # old_cmdline[p]
        /\ lockfile = p
        /\ cmdfile = cmdline[p]

\* lock() raised AlreadyRunning against a live recorded instance
C6_WitnessAlreadyRunning ==
    \E p, q \in Pids :
        /\ p # q
        /\ lock_result[p] = "AlreadyRunning"
        /\ lpc[q] = "locked"
        /\ lockfile = q

\* --------------------------------------- specification: the status evaluator
\* (mutant: the result of the last test alone decides)
TestLoop_LastOnly(tests, k, success) ==
    IF tests = <<>> THEN success ELSE tests[Len(tests)]

\* test(): success = test(self) and success, over self.tests from index k
RECURSIVE TestLoop(_, _, _)
TestLoop(tests, k, success) ==
    IF k > Len(tests) THEN success
    ELSE TestLoop(tests, k + 1, tests[k] /\ success)

\* AbstractContainer.test: True if all tests succeeded
test(tests) == TestLoop(tests, 1, TRUE)

\* (mutant: the grace time ends one instant later)
InGracetime_Inclusive(t, gracetime) ==
    CASE t.kind = "seconds" -> IF t.seconds <= gracetime THEN "True" ELSE "False"
      [] t.kind = "inf" -> "False"
      [] OTHER -> "TypeError"

\* self.time_running() < self.startup_gracetime; None < number raises TypeError
InGracetime(t, gracetime) ==
    CASE t.kind = "seconds" -> IF t.seconds < gracetime THEN "True" ELSE "False"
      [] t.kind = "inf" -> "False"
      [] OTHER -> "TypeError"

\* '{message_run}{tests_ok}/{tests_ok} tests ok'
TestsOkMsg(is_running, n) ==
    (IF is_running THEN "running, " ELSE "")
        \o ToString(n) \o "/" \o ToString(n) \o " tests ok"

\* AbstractContainer.get_status
get_status(c) ==
    IF ~c.is_built
    THEN [status |-> "MISSING", msg |-> "image is missing on the local system"]
    ELSE IF c.only_build /\ c.tests = <<>>
    THEN [status |-> "OKAY", msg |-> "(only build)"]
    ELSE IF test(c.tests)
    THEN IF c.is_running \/ c.only_build
         THEN [status |-> "OKAY", msg |-> TestsOkMsg(c.is_running, Len(c.tests))]
         ELSE IF c.tests # <<>>
              THEN [status |-> "FAILED",
                    msg |-> "stopped, but tests succeeded. Check your tests!"]
              ELSE [status |-> "FAILED", msg |-> "stopped"]
    ELSE IF c.only_build
         THEN [status |-> "FAILED", msg |-> "tests failed"]
         ELSE IF c.is_running
              THEN CASE InGracetime(c.time_running, c.startup_gracetime) = "True" ->
                            [status |-> "STARTING",
                             msg |-> "starting up... Tests not yet OK"]
                     [] InGracetime(c.time_running, c.startup_gracetime) = "False" ->
                            [status |-> "FAILED", msg |-> "running, but tests failed"]
                     [] OTHER -> [status |-> "TypeError", msg |-> ""]
              ELSE [status |-> "FAILED", msg |-> "stopped"]

InitEval ==
    /\ links = [c \in Containers |-> <<>>]
    /\ only_build = [c \in Containers |-> FALSE]
    /\ ResolverIdle
    /\ OrchStart
    /\ running = {}
    /\ LockIdle
    /\ StatusIdle
    /\ CronIdle
    /\ CleanupIdle
    /\ StartupIdle
    /\ RebuildIdle
    /\ InstanceIdle
    /\ LifeIdle
    /\ probe \in Probes
    /\ status = NoStatus

\* one call of container.get_status()
Evaluate ==
    /\ status = NoStatus
    /\ status' = get_status(probe)
    /\ UNCHANGED <<probe, notEval>>

NextEval == Evaluate

SpecEval == InitEval /\ [][NextEval]_vars

Evaluated == status # NoStatus

\* every test of the probed container succeeded
TestsPass == \A k \in 1..Len(probe.tests) : probe.tests[k]

\* time_running is a number (float('inf') included)
Timed == probe.time_running.kind # "None"

\* C7: get_status follows the priority-ordered decision table: not built is
\* MISSING whatever the rest; only-build without tests is OKAY; tests passing
\* and (running or only-build) is OKAY; tests passing while stopped is FAILED;
\* tests failing is FAILED for only-build or stopped containers and STARTING or
\* FAILED, by the grace time, for running ones.
C7_DecisionTable ==
    Evaluated =>
        /\ ~probe.is_built => status.status = "MISSING"
        /\ probe.is_built /\ probe.only_build /\ Len(probe.tests) = 0
               => status.status = "OKAY"
        /\ probe.is_built /\ TestsPass /\ (probe.is_running \/ probe.only_build)
               => status.status = "OKAY"
        /\ probe.is_built /\ TestsPass /\ ~probe.is_running /\ ~probe.only_build
               => status.status = "FAILED"
        /\ probe.is_built /\ ~TestsPass /\ (probe.only_build \/ ~probe.is_running)
               => status.status = "FAILED"
        /\ probe.is_built /\ ~TestsPass /\ ~probe.only_build /\ probe.is_running
               /\ Timed
               => status.status \in {"STARTING", "FAILED"}
        /\ status.status = "STARTING" =>
               /\ probe.is_built /\ ~TestsPass /\ ~probe.only_build
               /\ probe.is_running

\* an image that is missing wins over a running container with passing tests
C7_Witness ==
    /\ Evaluated
    /\ ~probe.is_built /\ probe.is_running /\ ~probe.only_build
    /\ Len(probe.tests) > 0 /\ TestsPass
    /\ status.status = "MISSING"

\* C8: for a built, running, non-only-build container whose tests fail,
\* get_status is STARTING when time_running < startup_gracetime and FAILED
\* when time_running >= startup_gracetime.
C8_GracetimeBoundary ==
    Evaluated /\ probe.is_built /\ probe.is_running /\ ~probe.only_build
        /\ ~TestsPass /\ Timed
    => IF probe.time_running.kind = "seconds"
              /\ probe.time_running.seconds < probe.startup_gracetime
       THEN status.status = "STARTING"
       ELSE status.status = "FAILED"

\* the boundary itself: time_running equals the grace time
C8_Witness ==
    /\ Evaluated /\ probe.is_built /\ probe.is_running /\ ~probe.only_build
    /\ ~TestsPass
    /\ probe.time_running.kind = "seconds"
    /\ probe.time_running.seconds = probe.startup_gracetime
    /\ probe.startup_gracetime > 0
    /\ status.status = "FAILED"

\* ------------------------------------------ specification: the status action
\* what get_status can return for a container, by its only_build attribute
Outcomes ==
    [ob \in BOOLEAN |-> {get_status(c) : c \in {x \in Probes : x.only_build = ob}}]

\* the comparison of None with the grace time raised
TypeErrorOutcome == [status |-> "TypeError", msg |-> ""]

\* the containers' names sort as the configuration lists them, or the other
\* way round
NameKeys ==
    {[c \in Containers |-> c], [c \in Containers |-> NumContainers + 1 - c]}

\* sorted(): put report r behind the last report whose key is not greater
RECURSIVE SortInsert(_, _)
SortInsert(sorted, r) ==
    IF sorted = <<>> THEN <<r>>
    ELSE IF name_key[sorted[Len(sorted)].container_name] <= name_key[r.container_name]
         THEN Append(sorted, r)
         ELSE Append(SortInsert(SubSeq(sorted, 1, Len(sorted) - 1), r),
                     sorted[Len(sorted)])

\* sorted(reports, key=lambda x: str.lower(x.container_name)), a stable sort
RECURSIVE SortByName(_)
SortByName(reports) ==
    IF reports = <<>> THEN <<>>
    ELSE SortInsert(SortByName(SubSeq(reports, 1, Len(reports) - 1)),
                    reports[Len(reports)])

\* (mutant: a missing image does not count as a failure)
failed_containers_FailedOnly(reports) ==
    \E k \in 1..Len(reports) : reports[k].status = "FAILED"

\* any(status in (FAILED, MISSING) for status_report in status_report_list)
failed_containers(reports) ==
    \E k \in 1..Len(reports) : reports[k].status \in {"FAILED", "MISSING"}

\* main calls print_status_and_exit for the given containers, which are listed
\* in the order of the configuration
InitStatus ==
    /\ links = [c \in Containers |-> <<>>]
    /\ only_build \in [Containers -> BOOLEAN]
    /\ ResolverIdle
    /\ OrchStart
    /\ running = {}
    /\ LockIdle
    /\ EvalIdle
    /\ CronIdle
    /\ CleanupIdle
    /\ StartupIdle
    /\ RebuildIdle
    /\ InstanceIdle
    /\ LifeIdle
    /\ name_key \in NameKeys
    /\ given_containers \in GivenLists
    /\ other_instance \in BOOLEAN
    /\ status_report_list = <<>>
    /\ spc = "query"
    /\ exit_code = <<>>

Querying ==
    /\ spc = "query"
    /\ Len(status_report_list) < Len(given_containers)

NextQueried == given_containers[Len(status_report_list) + 1]

\* get_status: the next container's status is appended
QueryStatus ==
    /\ Querying
    /\ \E r \in Outcomes[only_build[NextQueried]] \ {TypeErrorOutcome} :
           status_report_list' =
               Append(status_report_list,
                      [container_name |-> NextQueried,
                       status |-> r.status, msg |-> r.msg])
    /\ UNCHANGED <<name_key, given_containers, other_instance, spc, exit_code,
                   notStatus>>

\* get_status: container.get_status() raises TypeError, nobody catches it
QueryTypeError ==
    /\ Querying
    /\ TypeErrorOutcome \in Outcomes[only_build[NextQueried]]
    /\ spc' = "exception"
    /\ exit_code' = <<1>>
    /\ UNCHANGED <<name_key, given_containers, other_instance,
                   status_report_list, notStatus>>

\* docker.errors.APIError while another instance is running: warn, exit 42
QueryAPIErrorIgnored ==
    /\ Querying
    /\ other_instance
    /\ spc' = "gave_up"
    /\ exit_code' = <<42>>
    /\ UNCHANGED <<name_key, given_containers, other_instance,
                   status_report_list, notStatus>>

\* docker.errors.APIError without another instance: raised again
QueryAPIErrorRaised ==
    /\ Querying
    /\ ~other_instance
    /\ spc' = "exception"
    /\ exit_code' = <<1>>
    /\ UNCHANGED <<name_key, given_containers, other_instance,
                   status_report_list, notStatus>>

\* the list is sorted and printed, the exit status says whether all is well
PrintAndExit ==
    /\ spc = "query"
    /\ Len(status_report_list) = Len(given_containers)
    /\ status_report_list' = SortByName(status_report_list)
    /\ spc' = "exited"
    /\ exit_code' = IF failed_containers(status_report_list')
                       THEN IF other_instance THEN <<42>> ELSE <<1>>
                       ELSE <<0>>
    /\ UNCHANGED <<name_key, given_containers, other_instance, notStatus>>

NextStatus ==
    \/ QueryStatus
    \/ QueryTypeError
    \/ QueryAPIErrorIgnored
    \/ QueryAPIErrorRaised
    \/ PrintAndExit

SpecStatus == InitStatus /\ [][NextStatus]_vars

\* the statuses of the queried containers
QueriedStatuses ==
    {status_report_list[k].status : k \in 1..Len(status_report_list)}

\* C9: once every given container was queried, the status action exits with 0
\* exactly when every queried container is OKAY or STARTING; when one is
\* FAILED or MISSING it exits with 1 if no other instance was detected and
\* with 42 if one was.
C9_ExitOutcome ==
    /\ spc = "exited" =>
           /\ {status_report_list[k].container_name :
                   k \in 1..Len(status_report_list)} = SeqSet(given_containers)
           /\ QueriedStatuses \subseteq {"OKAY", "STARTING", "FAILED", "MISSING"}
           /\ exit_code = <<0>> <=> QueriedStatuses \subseteq {"OKAY", "STARTING"}
           /\ QueriedStatuses \cap {"FAILED", "MISSING"} # {} =>
                  exit_code = IF other_instance THEN <<42>> ELSE <<1>>
    /\ exit_code = <<0>> => spc = "exited"

\* a missing image among healthy containers, another instance detected: 42
C9_Witness ==
    /\ spc = "exited"
    /\ other_instance
    /\ "MISSING" \in QueriedStatuses
    /\ "FAILED" \notin QueriedStatuses
    /\ "OKAY" \in QueriedStatuses
    /\ exit_code = <<42>>

\* --------------------------------------- specification: the monitoring script
STATUS_HISTORY_LENGTH == 20
\* monitoring runs are followed while status.json holds fewer snapshots
MaxHistory == 3
\* the same, when a single container is monitored
MaxHistorySingle == 4
\* the runs that are followed on a history that is about to be cut
MaxLongRuns == 3

\* the monitored containers, as kastenwesen status lists them (lower-case order)
LowerCaseOrder == <<"bar", "Foo">>
\* the same names as sorted() orders them (by code point)
CodePointOrder == <<"Foo", "bar">>
CronNames == SeqSet(LowerCaseOrder)
CronStatuses == {"OKAY", "FAILED", "STARTING", "MISSING"}

\* a snapshot: the status of each container that was reported (the message,
\* which the script only passes on, is left out)
SnapshotsOf(names) == UNION {[S -> CronStatuses] : S \in SUBSET names}
Snapshots == SnapshotsOf(CronNames)
NoSnapshot == <<>>

\* status_report_dict.items(): the names in the order of the JSON list
Items(snapshot) == SelectSeq(LowerCaseOrder, LAMBDA n : n \in DOMAIN snapshot)

\* the loop over the window: the raw and the STARTING-filtered history
RECURSIVE HistoryLoop(_, _, _, _, _)
HistoryLoop(window, k, container_name, raw, filtered) ==
    IF k > Len(window) THEN [raw |-> raw, filtered |-> filtered]
    ELSE IF container_name \in DOMAIN window[k]
         THEN LET st == window[k][container_name]
              IN  IF st = "STARTING"
                  THEN HistoryLoop(window, k + 1, container_name,
                                   Append(raw, st), filtered)
                  ELSE HistoryLoop(window, k + 1, container_name,
                                   Append(raw, st), Append(filtered, st))
         ELSE HistoryLoop(window, k + 1, container_name, raw, filtered)

\* (mutant: the newest settled status is compared with the oldest one known)
Changed_ComparesOldest(raw, filtered) ==
    IF Len(filtered) > 2
    THEN filtered[1] # filtered[Len(filtered)]
    ELSE raw[1] \in {"FAILED", "MISSING"}

\* (mutant: only a failure is ever reported)
Changed_FailuresOnly(raw, filtered) ==
    raw[1] \in {"FAILED", "MISSING"}

\* (mutant: two settled entries are taken as enough history)
Changed_TwoSuffice(raw, filtered) ==
    IF Len(filtered) > 1
    THEN filtered[1] # filtered[2]
    ELSE raw[1] \in {"FAILED", "MISSING"}

\* changed: enough history, or else always report failure
Changed(raw, filtered) ==
    IF Len(filtered) > 2
    THEN filtered[1] # filtered[2]
    ELSE raw[1] \in {"FAILED", "MISSING"}

\* the ExtendedStatusReport of one container of the newest snapshot
Report(window, container_name) ==
    LET h == HistoryLoop(window, 1, container_name, <<>>, <<>>)
    IN  [container_name |-> container_name,
         current_status |-> window[1][container_name],
         overall_status |-> h.raw[1],
         changed |-> Changed(h.raw, h.filtered)]

\* the loop over the newest snapshot's items
RECURSIVE DetectLoop(_, _, _, _, _)
DetectLoop(window, items, k, changes, reports) ==
    IF k > Len(items)
    THEN [changes_to_report |-> changes, current_status_list |-> reports]
    ELSE LET r == Report(window, items[k])
         IN  DetectLoop(window, items, k + 1, changes \/ r.changed,
                        Append(reports, r))

detect_flapping_and_changes(window) ==
    DetectLoop(window, Items(window[1]), 1, FALSE, <<>>)

\* sorted(current_status_list): by container_name, the names being distinct
RECURSIVE SortReports(_, _)
SortReports(reports, k) ==
    IF k > Len(CodePointOrder) THEN <<>>
    ELSE SelectSeq(reports, LAMBDA r : r.container_name = CodePointOrder[k])
             \o SortReports(reports, k + 1)

\* (mutant: the whole list is saved)
Truncated_Uncut(window) == window

\* status_history_list[:STATUS_HISTORY_LENGTH]
Truncated(window) ==
    IF Len(window) > STATUS_HISTORY_LENGTH
    THEN SubSeq(window, 1, STATUS_HISTORY_LENGTH)
    ELSE window

\* everything but the monitoring script is at rest
CronAlone ==
    /\ links = [c \in Containers |-> <<>>]
    /\ only_build = [c \in Containers |-> FALSE]
    /\ ResolverIdle
    /\ OrchStart
    /\ running = {}
    /\ LockIdle
    /\ EvalIdle
    /\ StatusIdle
    /\ CleanupIdle
    /\ StartupIdle
    /\ RebuildIdle
    /\ InstanceIdle
    /\ LifeIdle

\* no status.json yet, no run in progress
CronStart ==
    /\ status_json = <<>>
    /\ status_history_list = <<>>
    /\ changes_to_report = FALSE
    /\ current_status_list = <<>>
    /\ mail_sent = FALSE
    /\ cron_outcome = "none"
    /\ returncode = 0
    /\ shutting_down = FALSE
    /\ cron_runs = 0

InitCron ==
    /\ CronAlone
    /\ monitored = CronNames
    /\ CronStart

\* a configuration with one container
InitCronSingle ==
    /\ CronAlone
    /\ monitored = {LowerCaseOrder[1]}
    /\ CronStart

HistoryBound ==
    IF Cardinality(monitored) = 1 THEN MaxHistorySingle ELSE MaxHistory

\* a history of LongHistory snapshots and more is about to be cut; runs on
\* such a history are followed MaxLongRuns times
LongHistory == STATUS_HISTORY_LENGTH - 2
RunFollowed ==
    IF Len(status_json) < LongHistory
    THEN Len(status_json) < HistoryBound
    ELSE cron_runs < MaxLongRuns

\* the exit codes of kastenwesen status that come with a JSON list
ReturnCodes == {0, 1}

\* main up to the decision to go on: the new status in front of the old
\* history, the detector, the sort
Monitor(new) ==
    /\ cron_outcome = "none"
    /\ RunFollowed
    /\ status_history_list' = <<new>> \o status_json
    /\ LET d == detect_flapping_and_changes(status_history_list')
       IN  /\ changes_to_report' = d.changes_to_report
           /\ current_status_list' = SortReports(d.current_status_list, 1)
    /\ cron_runs' = IF Len(status_json) < LongHistory THEN cron_runs ELSE cron_runs + 1

\* (mutant: only a shutdown keeps the script from saving and mailing)
Suppressed_ShutdownOnly(code, shutdown) == shutdown
\* main, line 266: `if returncode == 42 or is_shutting_down()`
Suppressed(code, shutdown) == code = 42 \/ shutdown

\* main, lines 266-284: exit(), or save the history and mail the changes
Finish(code, shutdown) ==
    /\ returncode' = code
    /\ shutting_down' = shutdown
    /\ IF Suppressed(code, shutdown)
       THEN /\ cron_outcome' = "suppressed"
            /\ mail_sent' = FALSE
            /\ status_json' = status_json
       ELSE /\ status_json' = Truncated(status_history_list')
            /\ cron_outcome' = "saved"
            /\ mail_sent' = changes_to_report'

\* kastenwesen status returned 42: no output, nothing saved, no mail
CronRunOtherInstance ==
    /\ Monitor(NoSnapshot)
    /\ \E shutdown \in BOOLEAN : Finish(42, shutdown)
    /\ UNCHANGED <<monitored, notCron>>

\* the system is shutting down: nothing saved, no mail
CronRunShuttingDown ==
    /\ \E new \in SnapshotsOf(monitored) : Monitor(new)
    /\ \E code \in ReturnCodes : Finish(code, TRUE)
    /\ UNCHANGED <<monitored, notCron>>

\* the history is saved, a mail is sent if there are changes to report
CronRun ==
    /\ \E new \in SnapshotsOf(monitored) : Monitor(new)
    /\ \E code \in ReturnCodes : Finish(code, FALSE)
    /\ UNCHANGED <<monitored, notCron>>

\* the script's process ends, its variables are gone; status.json stays
CronExit ==
    /\ cron_outcome # "none"
    /\ status_history_list' = <<>>
    /\ changes_to_report' = FALSE
    /\ current_status_list' = <<>>
    /\ mail_sent' = FALSE
    /\ cron_outcome' = "none"
    /\ returncode' = 0
    /\ shutting_down' = FALSE
    /\ UNCHANGED <<monitored, status_json, cron_runs, notCron>>

NextCron ==
    \/ CronRunOtherInstance
    \/ CronRunShuttingDown
    \/ CronRun
    \/ CronExit

SpecCron == InitCron /\ [][NextCron]_vars

SpecCronSingle == InitCronSingle /\ [][NextCron]_vars

\* the entries of the last window that know the container, newest first
EntriesOf(n) == SelectSeq(status_history_list, LAMBDA e : n \in DOMAIN e)

\* R: the raw statuses of container n in the last window
R(n) == [k \in 1..Len(EntriesOf(n)) |-> EntriesOf(n)[k][n]]

\* F: R without STARTING
F(n) == SelectSeq(R(n), LAMBDA st : st # "STARTING")

ReportsOf(n) ==
    {k \in 1..Len(current_status_list) : current_status_list[k].container_name = n}

Reported(n) == cron_outcome # "none" /\ ReportsOf(n) # {}
ReportFor(n) == current_status_list[CHOOSE k \in ReportsOf(n) : TRUE]

\* more than two settled entries, the newest of them all alike: all entries
\* equal, or [X]*k followed by one older entry
SteadyNewest(f) ==
    /\ Len(f) > 2
    /\ \A k \in 1..(Len(f) - 1) : f[k] = f[1]

Alternates(f) ==
    /\ \A k \in 1..Len(f) : f[k] \in {"OKAY", "FAILED"}
    /\ \A k \in 1..(Len(f) - 1) : f[k] # f[k + 1]

\* [OKAY] + [FAILED]*k, k >= 2
NewAfterRun(r) ==
    /\ Len(r) > 2
    /\ r[1] = "OKAY"
    /\ \A k \in 2..Len(r) : r[k] = "FAILED"

C13_StartingNeverReported ==
    \A n \in monitored :
        Reported(n) /\ R(n)[1] = "STARTING" => ~ReportFor(n).changed

\* the values FLAPPING_HYSTERESIS may have (no module defines it)
MaxHysteresis == 3
Hystereses == 1..MaxHysteresis

\* [X]*h + [Y], {X, Y} = {OKAY, FAILED}
TransitionWindow(r, h) ==
    /\ Len(r) = h + 1
    /\ \A k \in 1..h : r[k] = r[1]
    /\ {r[1], r[h + 1]} = {"OKAY", "FAILED"}

\* C14 as stated: the window [X]*FLAPPING_HYSTERESIS + [Y] is reported with
\* changed = true and overall_status = X.
C14_TransitionReportedAfterHysteresis ==
    \A n \in monitored : \A h \in Hystereses :
        Reported(n) /\ TransitionWindow(R(n), h) =>
            /\ ReportFor(n).changed
            /\ ReportFor(n).overall_status = R(n)[1]

\* [X]*(h-1) + [Y]*2, {X, Y} = {OKAY, FAILED}
FlappingWindow(r, h) ==
    /\ h > 1
    /\ Len(r) = h + 1
    /\ \A k \in 1..(h - 1) : r[k] = r[1]
    /\ r[h] = r[h + 1]
    /\ {r[1], r[h + 1]} = {"OKAY", "FAILED"}

\* C15 as stated: the window [X]*(FLAPPING_HYSTERESIS-1) + [Y]*2 is reported
\* with overall_status = FLAPPING and changed = false.
C15_FlappingRecognized ==
    \A n \in monitored : \A h \in Hystereses :
        Reported(n) /\ FlappingWindow(R(n), h) =>
            /\ ReportFor(n).overall_status = "FLAPPING"
            /\ ~ReportFor(n).changed

\* ------------------------------------------------------ the cleanup action
\* the containers and images docker lists, in the order of their IDs
ListById(S, n) == SelectSeq([i \in 1..n |-> i], LAMBDA x : x \in S)
Existing(dc) == {c \in ContainerIds : dc[c].state # "none" /\ ~dc[c].gone}
ExistingImages(di) == {i \in ImageIds : di[i].state # "none" /\ ~di[i].gone}
\* images(filters={"dangling": True})
DanglingImages(di) ==
    {i \in ExistingImages(di) : di[i].state \in {"dangling", "mistagged"}}

\* (mutant: a container that finished exactly min_age_days ago is too young)
TooYoung_Inclusive(age, min_age) == age <= min_age
\* (mutant: no container is too young)
TooYoung_Never(age, min_age) == FALSE
\* timedelta_to_now() < timedelta(days=1) * min_age_days, and for an image
\* Created > time.time() - 60*60*24*min_age_days
TooYoung(age, min_age) == age < min_age

\* (mutant: the recorded last instances are not looked at)
LastKnownInstance_NotLookedAt(id, ids) == FALSE
\* container['Id'] in config_container_ids
LastKnownInstance(id, ids) == id \in ids

\* the body of cleanup_containers' loop up to the removal, for the container
\* `id` that docker reports as `rec`: "skip" (continue), "assert" (the
\* creation time is after the finishing time) or "remove"
container_verdict(rec, id, ids, min_age) ==
    IF rec.state = "running" THEN "skip"
    ELSE IF rec.state = "exited" /\ TooYoung(rec.finished, min_age) THEN "skip"
    ELSE IF rec.state = "exited" /\ rec.late THEN "assert"
    ELSE IF LastKnownInstance(id, ids) THEN "skip"
    ELSE "remove"

\* (mutant: main hands cleanup_images no simulated removals)
simulated_deleted_containers_None(sim, deleted) == {}
\* main: simulated_deleted_containers = deleted_containers only with --simulate
simulated_deleted_containers(sim, deleted) == IF sim THEN SeqSet(deleted) ELSE {}

\* (mutant: the images in use are not looked at)
image_verdict_IgnoresUse(rec, id, used, min_age) ==
    IF rec.state = "mistagged" THEN "raise"
    ELSE IF TooYoung(rec.created, min_age) THEN "skip"
    ELSE "remove"

\* the body of cleanup_images' second loop up to the removal
image_verdict(rec, id, used, min_age) ==
    IF rec.state = "mistagged" THEN "raise"
    ELSE IF id \in used THEN "skip"
    ELSE IF TooYoung(rec.created, min_age) THEN "skip"
    ELSE "remove"

\* kastenwesen cleanup [--simulate] [--min-age=N] is invoked on some runtime:
\* cleanup_containers has listed the containers
CleanupAlone ==
    /\ links = [c \in Containers |-> <<>>]
    /\ only_build = [c \in Containers |-> FALSE]
    /\ ResolverIdle
    /\ OrchStart
    /\ running = {}
    /\ LockIdle
    /\ EvalIdle
    /\ StatusIdle
    /\ CronIdle
    /\ StartupIdle
    /\ RebuildIdle
    /\ InstanceIdle
    /\ LifeIdle

InitCleanup ==
    /\ CleanupAlone
    /\ docker_containers \in [ContainerIds -> ContainerRecords]
    /\ docker_images \in [ImageIds -> ImageRecords]
    /\ config_container_ids \in SUBSET ContainerIds
    /\ min_age_days \in 0..MaxAge
    /\ simulate \in BOOLEAN
    /\ gpc = "containers"
    /\ listed = ListById(Existing(docker_containers), NumDockerContainers)
    /\ gpos = 0
    /\ removed_containers = <<>>
    /\ used_image_ids = {}
    /\ image_candidates = <<>>
    /\ rm_calls = <<>>
    /\ rm_warnings = {}

InContainerLoop == gpc = "containers" /\ gpos < Len(listed)
InImageLoop == gpc = "images" /\ gpos < Len(listed)
Current == listed[gpos + 1]
ContainerVerdict ==
    container_verdict(docker_containers[Current], Current, config_container_ids,
                      min_age_days)
ImageVerdict ==
    image_verdict(docker_images[Current], Current, used_image_ids, min_age_days)

\* continue: running, too young, or the last known instance
ContainerSkip ==
    /\ InContainerLoop
    /\ ContainerVerdict = "skip"
    /\ gpos' = gpos + 1
    /\ UNCHANGED <<docker_containers, docker_images, config_container_ids,
                   min_age_days, simulate, gpc, listed, removed_containers,
                   used_image_ids, image_candidates, rm_calls, rm_warnings>>
    /\ UNCHANGED notCleanup

\* assert date_created <= date_finished fails: AssertionError ends the action
ContainerAssertion ==
    /\ InContainerLoop
    /\ ContainerVerdict = "assert"
    /\ gpc' = "crashed"
    /\ UNCHANGED <<docker_containers, docker_images, config_container_ids,
                   min_age_days, simulate, listed, gpos, removed_containers,
                   used_image_ids, image_candidates, rm_calls, rm_warnings>>
    /\ UNCHANGED notCleanup

\* simulate: "would remove old container"
ContainerWouldRemove ==
    /\ InContainerLoop
    /\ ContainerVerdict = "remove"
    /\ simulate
    /\ removed_containers' = Append(removed_containers, Current)
    /\ gpos' = gpos + 1
    /\ UNCHANGED <<docker_containers, docker_images, config_container_ids,
                   min_age_days, simulate, gpc, listed, used_image_ids,
                   image_candidates, rm_calls, rm_warnings>>
    /\ UNCHANGED notCleanup

\* docker rm succeeds
ContainerRemove ==
    /\ InContainerLoop
    /\ ContainerVerdict = "remove"
    /\ ~simulate
    /\ removed_containers' = Append(removed_containers, Current)
    /\ rm_calls' = Append(rm_calls, <<"rm", Current>>)
    /\ docker_containers' = [docker_containers EXCEPT ![Current].gone = TRUE]
    /\ gpos' = gpos + 1
    /\ UNCHANGED <<docker_images, config_container_ids, min_age_days, simulate,
                   gpc, listed, used_image_ids, image_candidates, rm_warnings>>
    /\ UNCHANGED notCleanup

\* docker rm fails: exec_verbose's check_call raises CalledProcessError, which
\* neither cleanup_containers nor main catches
ContainerRemoveFails ==
    /\ InContainerLoop
    /\ ContainerVerdict = "remove"
    /\ ~simulate
    /\ removed_containers' = Append(removed_containers, Current)
    /\ rm_calls' = Append(rm_calls, <<"rm", Current>>)
    /\ gpc' = "crashed"
    /\ UNCHANGED <<docker_containers, docker_images, config_container_ids,
                   min_age_days, simulate, listed, gpos, used_image_ids,
                   image_candidates, rm_warnings>>
    /\ UNCHANGED notCleanup

\* a container's image is not among docker's images
UsedImageMissing ==
    \E c \in Existing(docker_containers) :
        docker_containers[c].image \notin ExistingImages(docker_images)

\* cleanup_containers returns and main calls cleanup_images, which collects
\* the images in use and lists the dangling images
ImagesStart ==
    /\ gpc = "containers"
    /\ gpos = Len(listed)
    /\ ~UsedImageMissing
    /\ used_image_ids' =
           {docker_containers[c].image :
                c \in Existing(docker_containers)
                      \ simulated_deleted_containers(simulate, removed_containers)}
    /\ listed' = ListById(DanglingImages(docker_images), NumImages)
    /\ gpos' = 0
    /\ gpc' = "images"
    /\ UNCHANGED <<docker_containers, docker_images, config_container_ids,
                   min_age_days, simulate, removed_containers, image_candidates,
                   rm_calls, rm_warnings>>
    /\ UNCHANGED notCleanup

\* assert used_image_id in images fails
ImagesAssertion ==
    /\ gpc = "containers"
    /\ gpos = Len(listed)
    /\ UsedImageMissing
    /\ gpc' = "crashed"
    /\ UNCHANGED <<docker_containers, docker_images, config_container_ids,
                   min_age_days, simulate, listed, gpos, removed_containers,
                   used_image_ids, image_candidates, rm_calls, rm_warnings>>
    /\ UNCHANGED notCleanup

\* raise Exception("this should not happen ...")
ImageMistagged ==
    /\ InImageLoop
    /\ ImageVerdict = "raise"
    /\ gpc' = "crashed"
    /\ UNCHANGED <<docker_containers, docker_images, config_container_ids,
                   min_age_days, simulate, listed, gpos, removed_containers,
                   used_image_ids, image_candidates, rm_calls, rm_warnings>>
    /\ UNCHANGED notCleanup

\* continue: in use or too young
ImageSkip ==
    /\ InImageLoop
    /\ ImageVerdict = "skip"
    /\ gpos' = gpos + 1
    /\ UNCHANGED <<docker_containers, docker_images, config_container_ids,
                   min_age_days, simulate, gpc, listed, removed_containers,
                   used_image_ids, image_candidates, rm_calls, rm_warnings>>
    /\ UNCHANGED notCleanup

\* simulate: "would delete unused old image"
ImageWouldDelete ==
    /\ InImageLoop
    /\ ImageVerdict = "remove"
    /\ simulate
    /\ image_candidates' = Append(image_candidates, Current)
    /\ gpos' = gpos + 1
    /\ UNCHANGED <<docker_containers, docker_images, config_container_ids,
                   min_age_days, simulate, gpc, listed, removed_containers,
                   used_image_ids, rm_calls, rm_warnings>>
    /\ UNCHANGED notCleanup

\* docker rmi succeeds
ImageDelete ==
    /\ InImageLoop
    /\ ImageVerdict = "remove"
    /\ ~simulate
    /\ image_candidates' = Append(image_candidates, Current)
    /\ rm_calls' = Append(rm_calls, <<"rmi", Current>>)
    /\ docker_images' = [docker_images EXCEPT ![Current].gone = TRUE]
    /\ gpos' = gpos + 1
    /\ UNCHANGED <<docker_containers, config_container_ids, min_age_days,
                   simulate, gpc, listed, removed_containers, used_image_ids,
                   rm_warnings>>
    /\ UNCHANGED notCleanup

\* docker rmi fails: except CalledProcessError: print_warning, next image
ImageDeleteFails ==
    /\ InImageLoop
    /\ ImageVerdict = "remove"
    /\ ~simulate
    /\ image_candidates' = Append(image_candidates, Current)
    /\ rm_calls' = Append(rm_calls, <<"rmi", Current>>)
    /\ rm_warnings' = rm_warnings \cup {Current}
    /\ gpos' = gpos + 1
    /\ UNCHANGED <<docker_containers, docker_images, config_container_ids,
                   min_age_days, simulate, gpc, listed, removed_containers,
                   used_image_ids>>
    /\ UNCHANGED notCleanup

\* cleanup_images returns, the action is over
CleanupReturn ==
    /\ gpc = "images"
    /\ gpos = Len(listed)
    /\ gpc' = "done"
    /\ UNCHANGED <<docker_containers, docker_images, config_container_ids,
                   min_age_days, simulate, listed, gpos, removed_containers,
                   used_image_ids, image_candidates, rm_calls, rm_warnings>>
    /\ UNCHANGED notCleanup

NextCleanup ==
    \/ ContainerSkip
    \/ ContainerAssertion
    \/ ContainerWouldRemove
    \/ ContainerRemove
    \/ ContainerRemoveFails
    \/ ImagesStart
    \/ ImagesAssertion
    \/ ImageMistagged
    \/ ImageSkip
    \/ ImageWouldDelete
    \/ ImageDelete
    \/ ImageDeleteFails
    \/ CleanupReturn

SpecCleanup == InitCleanup /\ [][NextCleanup]_vars

\* the containers this step adds to the removals (announced, and with a real
\* run handed to docker rm)
NewlyRemoved == SeqSet(removed_containers') \ SeqSet(removed_containers)
\* docker rm was issued for container c
RmIssued(c) == InSeq(<<"rm", c>>, rm_calls)
\* container c finished less than min_age_days ago
YoungStopped(c) ==
    /\ docker_containers[c].state = "exited"
    /\ docker_containers[c].finished < min_age_days

\* C16: cleanup_containers never removes a container that is running at that
\* moment, and never removes a stopped container that finished less than
\* min_age_days ago: every container a step adds to the removals, and every
\* container a step issues docker rm for, is neither
C16_Step ==
    /\ \A c \in NewlyRemoved :
           docker_containers[c].state # "running" /\ ~YoungStopped(c)
    /\ \A c \in ContainerIds :
           RmIssued(c)' /\ ~RmIssued(c) =>
               docker_containers[c].state # "running" /\ ~YoungStopped(c)
C16_NeverRemovesLiveOrYoung == [][C16_Step]_vars

\* a real run has walked over all containers: it removed one, and left alone a
\* running one or a too young one that no record protects
C16_Witness ==
    /\ gpc = "images"
    /\ ~simulate
    /\ \E c, d \in ContainerIds :
           /\ docker_containers[c].gone
           /\ RmIssued(c)
           /\ d \notin config_container_ids
           /\ docker_containers[d].state = "running" \/ YoungStopped(d)
           /\ ~RmIssued(d)

\* C17: cleanup_containers never removes a container whose ID is recorded as
\* the last instance of a configured container, whatever its age: no such ID
\* is among the removals, docker rm is never issued for it, and the container
\* it names is never removed, so a record that resolved still resolves
C17_LastInstanceKept ==
    \A c \in config_container_ids :
        /\ ~InSeq(c, removed_containers)
        /\ ~RmIssued(c)
        /\ ~docker_containers[c].gone

\* a real run has walked over all containers: it removed one, and kept a
\* recorded one that stopped long enough ago
C17_Witness ==
    /\ gpc = "images"
    /\ ~simulate
    /\ \E c \in ContainerIds : docker_containers[c].gone
    /\ \E d \in config_container_ids :
           /\ docker_containers[d].state = "exited"
           /\ ~YoungStopped(d)
           /\ min_age_days > 0

\* C18: cleanup_containers skips every container whose finish time is absent:
\* a container that is not running and never finished is kept whatever
\* min_age_days is, so no step adds such a container to the removals
C18_Step == \A c \in NewlyRemoved : docker_containers[c].state # "created"
C18_NeverFinishedKept == [][C18_Step]_vars

\* what a run that removes all it decides to remove takes away, said of the
\* runtime the run started on (a record keeps what docker reported of a
\* container or image that is gone since): the containers that are not
\* running, did not finish less than min_age_days ago and are no recorded last
\* instance, and the dangling images created at least min_age_days ago that no
\* other container uses
ContainerCandidates ==
    {c \in ContainerIds :
        /\ docker_containers[c].state \in {"exited", "created"}
        /\ ~YoungStopped(c)
        /\ c \notin config_container_ids}
ImageCandidates ==
    {i \in ImageIds :
        /\ docker_images[i].state = "dangling"
        /\ docker_images[i].created >= min_age_days
        /\ \A c \in ContainerIds \ ContainerCandidates :
               docker_containers[c].state # "none" => docker_containers[c].image # i}
GoneContainers == {c \in ContainerIds : docker_containers[c].gone}
GoneImages == {i \in ImageIds : docker_images[i].gone}

RemovalFails ==
    /\ Len(rm_calls') > Len(rm_calls)
    /\ GoneContainers' = GoneContainers
    /\ GoneImages' = GoneImages

\* C20: a cleanup run does not abort on a single removal failure: when docker
\* fails to remove a container or an image, the run stays in its loop and
\* goes on with the next candidate
C20_Step == RemovalFails => gpc' = gpc /\ gpos' = gpos + 1
C20_RemovalFailureDoesNotAbort == [][C20_Step]_vars

\* the images this step announces (and, with a real run, hands to docker rmi)
NewlyAnnouncedImages == SeqSet(image_candidates') \ SeqSet(image_candidates)
\* the containers that are left when cleanup_images runs: the ones docker
\* still has, without the ones a simulated run announced as removed
SurvivingContainers ==
    {c \in ContainerIds :
        /\ docker_containers[c].state # "none"
        /\ ~docker_containers[c].gone
        /\ ~(simulate /\ InSeq(c, removed_containers))}
ImageInUse(i) == \E c \in SurvivingContainers : docker_containers[c].image = i

\* C21: cleanup_images removes (or, simulated, announces) an image only if it
\* is dangling, is the image of no surviving container, running or stopped,
\* and was not created less than min_age_days ago; an image that a remaining
\* container uses is never gone
C21_Step ==
    \A i \in NewlyAnnouncedImages \cup (GoneImages' \ GoneImages) :
        /\ docker_images[i].state = "dangling"
        /\ ~ImageInUse(i)
        /\ docker_images[i].created >= min_age_days
C21_InUseKept == \A i \in GoneImages : ~ImageInUse(i)
C21_OnlyUnusedOldDangling == [][C21_Step]_vars /\ []C21_InUseKept

\* a real run has ended: it removed an image, and kept a dangling image that
\* is old enough because a surviving container uses it
C21_Witness ==
    /\ gpc = "done"
    /\ ~simulate
    /\ GoneImages # {}
    /\ \E i \in ImageIds :
           /\ docker_images[i].state = "dangling"
           /\ ~docker_images[i].gone
           /\ docker_images[i].created >= min_age_days
           /\ ImageInUse(i)

\* ------------------------------------------------------ the start of main
\* the configurations: a list of container objects (an object may be entered
\* twice, and two objects may carry the same name), each linking to at most
\* one object, listed or not
ConfigLists == UNION {[1..n -> Objects] : n \in 0..(NumObjects + 1)}
LinkLists == {<<>>} \cup {<<o>> : o \in Objects}
ArgLists == UNION {[1..n -> ArgNames] : n \in 0..MaxArgs}

\* containers[0:i], for the entry at position i (counted from 1)
Before(containers, i) == {containers[k] : k \in 1..(i - 1)}
\* assert link in containers[0:i]
LinkAllowed(ln, containers, i) == ln \in Before(containers, i)
\* check_config(containers): both assertions hold for every entry; `in`
\* compares container objects, which define no __eq__, by identity
check_config_objects(containers, lks) ==
    \A i \in 1..Len(containers) :
        /\ containers[i] \notin Before(containers, i)
        /\ \A k \in 1..Len(lks[containers[i]]) :
               LinkAllowed(lks[containers[i]][k], containers, i)

\* arg_containers_with_ns: NAMESPACE is '', every name starts with it and is
\* taken as it is
arg_containers_with_ns(args) == args
\* [c for c in CONFIG_CONTAINERS if c.name in arg_containers_with_ns]
SelectGiven(containers, names, args) ==
    SelectSeq(containers, LAMBDA o : InSeq(names[o], arg_containers_with_ns(args)))

StartupAlone ==
    /\ links = [c \in Containers |-> <<>>]
    /\ only_build = [c \in Containers |-> FALSE]
    /\ ResolverIdle
    /\ OrchStart
    /\ running = {}
    /\ LockIdle
    /\ EvalIdle
    /\ StatusIdle
    /\ CronIdle
    /\ CleanupIdle
    /\ RebuildIdle
    /\ InstanceIdle
    /\ LifeIdle

\* kastenwesen (start|stop|restart|rebuild) [<container>...] is invoked with
\* some kastenwesen_config.py; main has taken the lock
InitStartup ==
    /\ StartupAlone
    /\ config_containers \in ConfigLists
    /\ name_of \in [Objects -> ConfigNames]
    /\ links_of \in [Objects -> LinkLists]
    /\ arg_containers \in ArgLists
    /\ mpc = "main"
    /\ given_objects = <<>>
    /\ operated = {}

\* check_config(CONFIG_CONTAINERS) returns
MainCheckConfig ==
    /\ mpc = "main"
    /\ check_config_objects(config_containers, links_of)
    /\ mpc' = "checked"
    /\ UNCHANGED <<config_containers, name_of, links_of, arg_containers,
                   given_objects, operated>>
    /\ UNCHANGED notStartup

\* an assertion of check_config fails: AssertionError, main ends
MainCheckConfigFails ==
    /\ mpc = "main"
    /\ ~check_config_objects(config_containers, links_of)
    /\ mpc' = "fatal"
    /\ UNCHANGED <<config_containers, name_of, links_of, arg_containers,
                   given_objects, operated>>
    /\ UNCHANGED notStartup

\* no <container> argument: all configured containers
MainSelectAll ==
    /\ mpc = "checked"
    /\ arg_containers = <<>>
    /\ given_objects' = config_containers
    /\ mpc' = "selected"
    /\ UNCHANGED <<config_containers, name_of, links_of, arg_containers, operated>>
    /\ UNCHANGED notStartup

\* the containers named on the command line, in configuration order
MainSelect ==
    /\ mpc = "checked"
    /\ arg_containers # <<>>
    /\ LET given == SelectGiven(config_containers, name_of, arg_containers)
       IN  /\ Len(given) = Len(arg_containers)
           /\ given_objects' = given
    /\ mpc' = "selected"
    /\ UNCHANGED <<config_containers, name_of, links_of, arg_containers, operated>>
    /\ UNCHANGED notStartup

\* len(given_containers) != len(arguments["<container>"]): raise Exception(
\* "Unknown container name(s) given on commandline: ...")
MainUnknownContainer ==
    /\ mpc = "checked"
    /\ arg_containers # <<>>
    /\ LET given == SelectGiven(config_containers, name_of, arg_containers)
       IN  /\ Len(given) # Len(arg_containers)
           /\ given_objects' = given
    /\ mpc' = "fatal"
    /\ UNCHANGED <<config_containers, name_of, links_of, arg_containers, operated>>
    /\ UNCHANGED notStartup

\* the action runs: it issues its builds, stops and starts for the given
\* containers
MainDispatch ==
    /\ mpc = "selected"
    /\ operated' = SeqSet(given_objects)
    /\ mpc' = "dispatched"
    /\ UNCHANGED <<config_containers, name_of, links_of, arg_containers,
                   given_objects>>
    /\ UNCHANGED notStartup

NextStartup ==
    \/ MainCheckConfig
    \/ MainCheckConfigFails
    \/ MainSelectAll
    \/ MainSelect
    \/ MainUnknownContainer
    \/ MainDispatch

SpecStartup == InitStartup /\ [][NextStartup]_vars

\* two entries of the configuration are containers of the same name
DuplicateName ==
    \E i, j \in 1..Len(config_containers) :
        i # j /\ name_of[config_containers[i]] = name_of[config_containers[j]]
\* the action has been entered, or an operation was issued
ActionEntered == mpc \in {"selected", "dispatched"} \/ operated # {}

\* C22: a configuration in which two containers have the same name is
\* rejected as a fatal error at startup, before any action is executed
C22_DuplicateNameRejected == DuplicateName => ~ActionEntered

\* a configured container links to an object that is not entered strictly
\* before it (a later one, itself, or one that is not listed)
LinkError ==
    \E i \in 1..Len(config_containers) :
        \E k \in 1..Len(links_of[config_containers[i]]) :
            links_of[config_containers[i]][k] \notin Before(config_containers, i)
\* a name on the command line is the name of no configured container
UnknownSelector ==
    \E k \in 1..Len(arg_containers) :
        arg_containers[k] \notin {name_of[o] : o \in SeqSet(config_containers)}

\* C23: no partial execution on configuration errors: with a link to a
\* container that is not strictly earlier in the list, or with an unknown
\* container name on the command line, the invocation fails before any
\* build, stop, start or remove operation is issued
C23_NoPartialExecution == LinkError \/ UnknownSelector => ~ActionEntered

\* ------------------------------- specification: the resolver, called twice
\* ordered_by_dependency on any list of distinct containers, in any order,
\* and then once more on the list it returned, with the same flags
ResolveAny ==
    /\ call = NoCall
    /\ \E containers \in ContainerLists, add_dependencies \in BOOLEAN,
          add_reverse_dependencies \in BOOLEAN :
       \E set_order \in SetOrders(containers, add_reverse_dependencies) :
          /\ call' = [called |-> TRUE, containers |-> containers,
                      add_dependencies |-> add_dependencies,
                      add_reverse_dependencies |-> add_reverse_dependencies,
                      again |-> FALSE, first |-> <<>>]
          /\ ordered_result' = ordered_by_dependency(containers, add_dependencies,
                                   add_reverse_dependencies, set_order)
    /\ UNCHANGED <<notOrch, configVars, orchVars>>

ResolveAgain ==
    /\ call # NoCall
    /\ ~call.again
    /\ \E set_order \in SetOrders(ordered_result, call.add_reverse_dependencies) :
          /\ call' = [call EXCEPT !.containers = ordered_result, !.again = TRUE,
                                  !.first = ordered_result]
          /\ ordered_result' = ordered_by_dependency(ordered_result,
                                   call.add_dependencies,
                                   call.add_reverse_dependencies, set_order)
    /\ UNCHANGED <<notOrch, configVars, orchVars>>

NextResolverTwice ==
    \/ ResolveAny
    \/ ResolveAgain

SpecResolverTwice == InitResolver /\ [][NextResolverTwice]_vars

\* C29: ordered_by_dependency is idempotent: for every configuration that
\* check_config accepts, every requested list and every combination of the
\* two flags, the call on its own result with the same flags returns the same
\* list in the same order
C29_Idempotent ==
    call # NoCall /\ call.again => ordered_result = call.first

\* C29, as the code has it: the call on its own result returns the same list
\* in the same order whenever at most one of add_dependencies and
\* add_reverse_dependencies is set
C29_IdempotentOneFlag ==
    /\ call # NoCall
    /\ call.again
    /\ ~(call.add_dependencies /\ call.add_reverse_dependencies)
    => ordered_result = call.first

\* the second call was made, with add_reverse_dependencies alone, on a list
\* to which the first call had added a reverse dependency and which it had
\* reordered
C29_Witness ==
    /\ call # NoCall
    /\ call.again
    /\ call.add_reverse_dependencies
    /\ ~call.add_dependencies
    /\ Len(call.first) = NumContainers
    /\ \E i, j \in 1..Len(call.first) : i < j /\ call.first[i] > call.first[j]

\* restart_many called start() on a container and start() raised ImageNotFound:
\* the call is issued, the container is not live after it
ImageNotFoundRaised ==
    /\ Len(start_calls') = Len(start_calls) + 1
    /\ running' = running

\* C25: in restart_many an ImageNotFound raised by start() ends the run
\* without --ignore-dependencies: nothing is started after it; with
\* --ignore-dependencies it is a warning: the loop goes on with the next
\* container, such a run never ends fatally and returns only when it has
\* gone through the whole start order
C25_Step ==
    /\ ImageNotFoundRaised =>
           IF ignore_dependencies
           THEN opc' = "starting" /\ start_pos' = start_pos + 1
           ELSE opc' = "fatal" /\ start_pos' = start_pos
    /\ opc = "fatal" => UNCHANGED vars
C25_Returns ==
    /\ opc = "fatal" => ~ignore_dependencies
    /\ opc = "done" /\ action = "restart" => start_pos = Len(start_containers)
C25_ImageNotFoundHandling == [][C25_Step]_vars /\ []C25_Returns

\* a restart with --ignore-dependencies has returned: the start of one
\* container raised ImageNotFound, a later container of the start order was
\* started
C25_Witness ==
    /\ opc = "done"
    /\ action = "restart"
    /\ ignore_dependencies
    /\ \E i, j \in 1..Len(start_calls) :
           /\ i < j
           /\ start_calls[i] \notin running
           /\ start_calls[j] \in running

\* ------------------------------------------------ specification: rebuild
\* (mutant: a container that has an image is never built again)
BuildsContainer_OnlyUnbuilt(container, missing, built) == container \notin built
\* rebuild_many, lines 826-828: is container.rebuild() called?
BuildsContainer(container, missing, built) == ~(missing /\ container \in built)

\* kastenwesen rebuild [--missing] [<container>...]: main, line 1226, has
\* called rebuild_many.  rebuild_many and DockerContainer.rebuild never read
\* only_build, so one value of it stands for all.
InitRebuild ==
    /\ links \in Configs
    /\ only_build = [c \in Containers |-> FALSE]
    /\ ResolverIdle
    /\ OrchStart
    /\ LockIdle
    /\ EvalIdle
    /\ StatusIdle
    /\ CronIdle
    /\ CleanupIdle
    /\ StartupIdle
    /\ InstanceIdle
    /\ LifeIdle
    /\ action_given \in GivenLists
    /\ is_built \in SUBSET Containers
    /\ only_missing \in BOOLEAN
    /\ build_pos = 0
    /\ build_calls = <<>>
    /\ bpc = "building"

InBuildLoop == bpc = "building" /\ build_pos < Len(action_given)
BuildCurrent == action_given[build_pos + 1]

\* "Skipping %s, because it is already built"
BuildSkip ==
    /\ InBuildLoop
    /\ ~BuildsContainer(BuildCurrent, only_missing, is_built)
    /\ build_pos' = build_pos + 1
    /\ UNCHANGED <<action_given, is_built, only_missing, build_calls, bpc>>
    /\ UNCHANGED notRebuild

\* container.rebuild(ignore_cache): docker build and the alias tags succeed
Build ==
    /\ InBuildLoop
    /\ BuildsContainer(BuildCurrent, only_missing, is_built)
    /\ build_calls' = Append(build_calls, BuildCurrent)
    /\ is_built' = is_built \cup {BuildCurrent}
    /\ build_pos' = build_pos + 1
    /\ UNCHANGED <<action_given, only_missing, bpc>>
    /\ UNCHANGED notRebuild

\* container.rebuild(ignore_cache) raises (its liveness query finds an
\* unmanaged container, or docker build or docker tag fails and exec_verbose
\* raises CalledProcessError): nobody catches it
BuildFails ==
    /\ InBuildLoop
    /\ BuildsContainer(BuildCurrent, only_missing, is_built)
    /\ build_calls' = Append(build_calls, BuildCurrent)
    /\ bpc' = "crashed"
    /\ UNCHANGED <<action_given, is_built, only_missing, build_pos>>
    /\ UNCHANGED notRebuild

\* line 829: return restart_many(containers, ignore_dependencies), which
\* enters stop_many (lines 941-953)
RebuildRestart ==
    /\ bpc = "building"
    /\ build_pos = Len(action_given)
    /\ opc = "idle"
    /\ \E ignore \in BOOLEAN :
       \E set_order \in SetOrders(action_given, ~ignore) :
          /\ requested_containers' = action_given
          /\ ignore_dependencies' = ignore
          /\ stop_containers' = StopList(action_given, ignore, set_order)
    /\ opc' = "stopping"
    /\ bpc' = "built"
    /\ UNCHANGED <<action_given, is_built, only_missing, build_pos, build_calls>>
    /\ UNCHANGED <<notAction, configVars, resolverVars, running, action, stop_calls,
                   start_containers, start_pos, start_calls>>

\* the container restart_many is about to start
StartCurrent == start_containers[start_pos + 1]
\* DockerContainer.start, line 622: the image is there after the build loop
\* for every container it went over, and for the others as it was before
StartBuilt == StartOk /\ StartCurrent \in is_built
StartUnbuilt == StartImageNotFound /\ StartCurrent \notin is_built

NextRebuild ==
    \/ BuildSkip
    \/ Build
    \/ BuildFails
    \/ RebuildRestart
    \/ StopStep
    \/ RestartOrder
    \/ StartSkip
    \/ StartBuilt
    \/ StartUnbuilt
    \/ StartReturn

SpecRebuild == InitRebuild /\ [][NextRebuild]_vars

\* C27: rebuild_many builds every given container except, with --missing,
\* those that have an image, one after the other; restart_many is entered
\* only when the build loop has gone through the whole list, and it is
\* entered with the full given list; no stop and no start is issued before
\* the last build
C27_BuildLoop ==
    bpc = "building" /\ build_pos' = build_pos + 1 =>
        IF only_missing /\ action_given[build_pos + 1] \in is_built
        THEN build_calls' = build_calls
        ELSE build_calls' = Append(build_calls, action_given[build_pos + 1])
C27_Delegates ==
    opc = "idle" /\ opc' # "idle" =>
        /\ build_pos = Len(action_given)
        /\ requested_containers' = action_given
C27_NoBuildAfter ==
    opc # "idle" \/ stop_calls # <<>> \/ start_calls # <<>> =>
        build_calls' = build_calls
C27_BuildsBeforeRestart ==
    /\ [][C27_BuildLoop /\ C27_Delegates /\ C27_NoBuildAfter]_vars
    /\ [](bpc = "building" => opc = "idle" /\ stop_calls = <<>> /\ start_calls = <<>>)

\* a rebuild --missing has returned: it skipped the build of a given
\* container, built another one, and stopped and started the skipped one
C27_Witness ==
    /\ opc = "done"
    /\ only_missing
    /\ \E c, d \in SeqSet(action_given) :
           /\ ~InSeq(c, build_calls)
           /\ InSeq(d, build_calls)
           /\ InSeq(c, stop_calls)
           /\ InSeq(c, start_calls)

\* ------------------------------------------ specification: the start action
\* (mutant: every given container that is not only-build is passed on)
StartRequested_LiveToo(given, live) ==
    SelectSeq(given, LAMBDA c : ~only_build[c])
\* main, lines 1240-1241: [container for container in given_containers
\* if not (container.is_running() or container.only_build)]
StartRequested(given, live) ==
    SelectSeq(given, LAMBDA c : ~(c \in live \/ only_build[c]))

\* kastenwesen start [--ignore-dependencies] [<container>...]: main, lines
\* 1239-1242, calls restart_many, which enters stop_many (lines 941-953)
InvokeStart ==
    /\ opc = "idle"
    /\ \E given \in GivenLists, ignore \in BOOLEAN :
       LET requested == StartRequested(given, running)
       IN  \E set_order \in SetOrders(requested, ~ignore) :
              /\ action_given' = given
              /\ requested_containers' = requested
              /\ ignore_dependencies' = ignore
              /\ stop_containers' = StopList(requested, ignore, set_order)
    /\ opc' = "stopping"
    /\ UNCHANGED <<is_built, only_missing, build_pos, build_calls, bpc>>
    /\ UNCHANGED <<notAction, configVars, resolverVars, running, action, stop_calls,
                   start_containers, start_pos, start_calls>>

NextStartAction ==
    \/ InvokeStart
    \/ StopStep
    \/ RestartOrder
    \/ StartSkip
    \/ StartOk
    \/ StartImageNotFound
    \/ StartReturn

SpecStartAction == InitOrch /\ [][NextStartAction]_vars

\* container c links to container d, directly or through other containers
RECURSIVE LinksTo(_, _)
LinksTo(c, d) ==
    \E k \in 1..Len(links[c]) : links[c][k] = d \/ LinksTo(links[c][k], d)

\* C28: the start action passes to restart_many exactly the given containers
\* that are neither live nor only-build, in the given order; so a live
\* container is stopped (and then started again) only if it links, directly
\* or through other containers, to one of the containers passed on, no other
\* live container is stopped, and start() is called on no live container
C28_Passes ==
    opc = "idle" /\ opc' # "idle" =>
        /\ \A c \in Containers :
               InSeq(c, requested_containers') <=>
                   InSeq(c, action_given') /\ c \notin running /\ ~only_build[c]
        /\ \A i, j \in 1..Len(requested_containers') :
               i < j => requested_containers'[i] < requested_containers'[j]
C28_Untouched ==
    /\ \A c \in running \ running' :
           \E d \in SeqSet(requested_containers) : LinksTo(c, d)
    /\ \A c \in running :
           Len(stop_calls') > Len(stop_calls) /\ stop_calls'[Len(stop_calls')] = c =>
               \E d \in SeqSet(requested_containers) : LinksTo(c, d)
    /\ \A c \in running :
           ~(Len(start_calls') > Len(start_calls)
             /\ start_calls'[Len(start_calls')] = c)
C28_StartLeavesLiveAlone == [][C28_Passes /\ C28_Untouched]_vars

\* a start of all containers has returned: a live container that links to a
\* container that was down was stopped and started again, another live
\* container was neither stopped nor started
C28_Witness ==
    /\ opc = "done"
    /\ Len(action_given) = NumContainers
    /\ \E c, d, e \in Containers :
           /\ InSeq(d, requested_containers)
           /\ ~InSeq(c, requested_containers)
           /\ LinksTo(c, d)
           /\ InSeq(c, stop_calls) /\ InSeq(c, start_calls)
           /\ e \in running
           /\ ~InSeq(e, stop_calls) /\ ~InSeq(e, start_calls)

\* ------------------------------- specification: the methods of a container
\* check_for_unmanaged_containers: the recorded IDs of all configured
\* containers, and the running containers of c's image that are not among
\* them and do not carry the temporary label
RecordedIds == {id_file[d] : d \in Tracked} \ {0}
ConflictingContainers(c) ==
    {i \in Instances :
        /\ inst[i].state = "live"
        /\ inst[i].image = c
        /\ i \notin RecordedIds
        /\ ~inst[i].temporary}
\* (mutant: the check for unmanaged containers finds nothing)
Unmanaged_NotChecked(c) == FALSE
Unmanaged(c) == ConflictingContainers(c) # {}

\* is_running, lines 693-699, when the check has passed: the recorded
\* instance exists and docker reports it as running
RecordedLive(c) == id_file[c] # 0 /\ inst[id_file[c]].state = "live"

\* (mutant: every link target is wired)
LinkWired_Always(ln) == TRUE
\* _get_docker_options, lines 595-604: `if not linked_container.is_running()`
\* warns and continues, else the link is added
LinkWired(ln) == RecordedLive(ln)

\* (mutant: start() does not test whether the container is running)
AlreadyRunning_NotTested(c) == FALSE
\* start, line 624, when the check has passed
AlreadyRunning(c) == RecordedLive(c)

Method(m, c, result) ==
    [method |-> m, container |-> c, result |-> result, wired |-> {}, warned |-> {}]
LinkSet(c) == {tlinks[c][k] : k \in 1..Len(tlinks[c])}
\* the ID docker gives the next container
FreeIds == {i \in Instances : inst[i].state = "free"}
NewId == CHOOSE i \in FreeIds : \A j \in FreeIds : i <= j

\* some images exist, container 2 may link to container 1; nothing was
\* started yet
InitInstance ==
    /\ links = [c \in Containers |-> <<>>]
    /\ only_build = [c \in Containers |-> FALSE]
    /\ ResolverIdle
    /\ OrchStart
    /\ running = {}
    /\ LockIdle
    /\ EvalIdle
    /\ StatusIdle
    /\ CronIdle
    /\ CleanupIdle
    /\ StartupIdle
    /\ RebuildIdle
    /\ LifeIdle
    /\ image_built \in [Tracked -> BOOLEAN]
    /\ tlinks \in {l \in [Tracked -> {<<>>} \cup {<<d>> : d \in Tracked}] :
                      \A c \in Tracked : \A k \in 1..Len(l[c]) : l[c][k] < c}
    /\ id_file = [c \in Tracked |-> 0]
    /\ name_file = [c \in Tracked |-> 0]
    /\ inst = [i \in Instances |-> FreeInstance]
    /\ last = NoMethod

\* somebody runs a container from the image of c by hand, or kastenwesen's
\* check for updates runs its temporary one
ManualRun(c, temporary) ==
    /\ image_built[c]
    /\ FreeIds # {}
    /\ inst' = [inst EXCEPT ![NewId] = LiveInstance(c, temporary)]
    /\ last' = Method("env", 0, "run")
    /\ UNCHANGED <<image_built, tlinks, id_file, name_file>>
    /\ UNCHANGED notInstance

\* a running container exits
Dies(i) ==
    /\ inst[i].state = "live"
    /\ inst' = [inst EXCEPT ![i] = DeadInstance]
    /\ last' = Method("env", 0, "exit")
    /\ UNCHANGED <<image_built, tlinks, id_file, name_file>>
    /\ UNCHANGED notInstance

\* is_running(), lines 693-702
IsRunning(c) ==
    /\ last' = Method("is_running", c,
                      IF Unmanaged(c) THEN "Unmanaged"
                      ELSE IF RecordedLive(c) THEN "True" ELSE "False")
    /\ UNCHANGED <<image_built, tlinks, id_file, name_file, inst>>
    /\ UNCHANGED notInstance

\* stop(), lines 611-618: docker stop on the recorded name when there is one
\* and is_running() is true; is_running() is not called without a name
StopCall(c) ==
    IF name_file[c] = 0
       THEN /\ inst' = inst
            /\ last' = Method("stop", c, "no known instance")
       ELSE IF Unmanaged(c)
       THEN /\ inst' = inst
            /\ last' = Method("stop", c, "Unmanaged")
       ELSE IF RecordedLive(c)
       THEN /\ inst' = IF inst[name_file[c]].state = "live"
                       THEN [inst EXCEPT ![name_file[c]] = DeadInstance]
                       ELSE inst
            /\ last' = Method("stop", c, "docker stop")
       ELSE /\ inst' = inst
            /\ last' = Method("stop", c, "no known instance")
Stop(c) ==
    /\ StopCall(c)
    /\ UNCHANGED <<image_built, tlinks, id_file, name_file>>
    /\ UNCHANGED notInstance

\* start(), lines 622-623: raise ImageNotFound
StartImageMissing(c) ==
    /\ ~image_built[c]
    /\ last' = Method("start", c, "ImageNotFound")
    /\ UNCHANGED <<image_built, tlinks, id_file, name_file, inst>>
    /\ UNCHANGED notInstance

\* start(), line 624: is_running() raises for an unmanaged container, or
\* returns True and start raises 'container is already running'
StartRaises(c) ==
    /\ image_built[c]
    /\ Unmanaged(c) \/ AlreadyRunning(c)
    /\ last' = Method("start", c,
                      IF Unmanaged(c) THEN "Unmanaged" ELSE "already running")
    /\ UNCHANGED <<image_built, tlinks, id_file, name_file, inst>>
    /\ UNCHANGED notInstance

StartGoesOn(c) == image_built[c] /\ ~Unmanaged(c) /\ ~AlreadyRunning(c)

\* start(), lines 626-641: the id file is moved out of the way, then
\* _get_docker_options asks a link target whether it is running and that
\* query raises for an unmanaged container
StartLinkRaises(c) ==
    /\ StartGoesOn(c)
    /\ \E ln \in LinkSet(c) : Unmanaged(ln)
    /\ id_file' = [id_file EXCEPT ![c] = 0]
    /\ last' = Method("start", c, "Unmanaged link")
    /\ UNCHANGED <<image_built, tlinks, name_file, inst>>
    /\ UNCHANGED notInstance

\* the links _get_docker_options wires and the ones it warns about
Wiring(c) ==
    [Method("start", c, "docker run") EXCEPT
        !.wired = {ln \in LinkSet(c) : LinkWired(ln)},
        !.warned = {ln \in LinkSet(c) : ~LinkWired(ln)}]

StartRuns(c) ==
    /\ StartGoesOn(c)
    /\ \A ln \in LinkSet(c) : ~Unmanaged(ln)
    /\ FreeIds # {}

\* start(), lines 626-647: docker run succeeds and writes the id file, the
\* name file is written after it
StartRun(c) ==
    /\ StartRuns(c)
    /\ inst' = [inst EXCEPT ![NewId] = LiveInstance(c, FALSE)]
    /\ id_file' = [id_file EXCEPT ![c] = NewId]
    /\ name_file' = [name_file EXCEPT ![c] = NewId]
    /\ last' = Wiring(c)
    /\ UNCHANGED <<image_built, tlinks>>
    /\ UNCHANGED notInstance

\* docker run fails and exec_verbose raises CalledProcessError: either docker
\* created no container and no id file, or it created the container, wrote
\* the id file and could not start it
StartRunFails(c) ==
    /\ StartRuns(c)
    /\ \/ /\ id_file' = [id_file EXCEPT ![c] = 0]
          /\ inst' = inst
       \/ /\ id_file' = [id_file EXCEPT ![c] = NewId]
          /\ inst' = [inst EXCEPT ![NewId] = DeadInstance]
    /\ last' = [Wiring(c) EXCEPT !.result = "CalledProcessError"]
    /\ UNCHANGED <<image_built, tlinks, name_file>>
    /\ UNCHANGED notInstance

NextInstance ==
    \/ \E c \in Tracked, temporary \in BOOLEAN : ManualRun(c, temporary)
    \/ \E i \in Instances : Dies(i)
    \/ \E c \in Tracked : IsRunning(c)
    \/ \E c \in Tracked : Stop(c)
    \/ \E c \in Tracked : StartImageMissing(c)
    \/ \E c \in Tracked : StartRaises(c)
    \/ \E c \in Tracked : StartLinkRaises(c)
    \/ \E c \in Tracked : StartRun(c)
    \/ \E c \in Tracked : StartRunFails(c)

SpecInstance == InitInstance /\ [][NextInstance]_vars

\* this step is a call of start() on container c
StartCalled(c) == last'.method = "start" /\ last'.container = c
\* docker run was issued by this step
RunIssued == last'.result \in {"docker run", "CalledProcessError"}
\* the step leaves the runtime and the records of all containers as they are
NothingTouched == inst' = inst /\ id_file' = id_file /\ name_file' = name_file

\* C24: start() raises ImageNotFound when there is no local image, and only
\* then; it raises an exception when the container is running already; in
\* both cases docker run is not issued and no id file or name file changes
C24_Step ==
    \A c \in Tracked :
        StartCalled(c) =>
            /\ last'.result = "ImageNotFound" <=> ~image_built[c]
            /\ image_built[c] /\ RecordedLive(c) =>
                   last'.result \in {"already running", "Unmanaged"}
            /\ ~image_built[c] \/ RecordedLive(c) => ~RunIssued /\ NothingTouched
C24_StartFailsFast == [][C24_Step]_vars

\* start() was called on a container that has an image and whose recorded
\* instance is running: it raised 'container is already running'
C24_Witness ==
    /\ last.method = "start"
    /\ last.result = "already running"
    /\ image_built[last.container]
    /\ RecordedLive(last.container)
    /\ name_file[last.container] = id_file[last.container]

\* C26: a link target that is not running never aborts a start: a start()
\* that gets to docker run has wired exactly the link targets that were
\* running at that moment and has warned about each of the others, and
\* start() gets to docker run whenever the container has an image, is not
\* running and no liveness query raises, whether its link targets run or not
C26_Step ==
    \A c \in Tracked :
        StartCalled(c) =>
            /\ RunIssued =>
                   /\ last'.wired = {ln \in LinkSet(c) : RecordedLive(ln)}
                   /\ last'.warned = {ln \in LinkSet(c) : ~RecordedLive(ln)}
            /\ /\ image_built[c]
               /\ ~RecordedLive(c)
               /\ \A d \in {c} \cup LinkSet(c) : ConflictingContainers(d) = {}
               => RunIssued
MethodCalled == last'.method \in {"is_running", "stop", "start"}

\* C30: while a running container of a configured container's image exists
\* that no id file records and that does not carry the temporary label,
\* every is_running() of that configured container raises, and no method
\* call stops that running container or starts an instance of that image
C30_Step ==
    \A c \in Tracked :
        ConflictingContainers(c) # {} /\ MethodCalled =>
            /\ last'.method = "is_running" /\ last'.container = c =>
                   last'.result = "Unmanaged"
            /\ \A i \in ConflictingContainers(c) : inst'[i] = inst[i]
            /\ StartCalled(c) => ~RunIssued /\ inst' = inst
            /\ \A k \in Instances :
                   inst[k].state = "free" =>
                       ~(inst'[k].state = "live" /\ inst'[k].image = c)
C30_UnmanagedIsFatal == [][C30_Step]_vars

\* a container was started by kastenwesen, another container of its image
\* was run by hand, and is_running() raised
C30_Witness ==
    /\ last.method = "is_running"
    /\ last.result = "Unmanaged"
    /\ RecordedLive(last.container)
    /\ ConflictingContainers(last.container) # {}

\* ------------------------------------------------ claims: the resolver again
\* C34: over a configuration check_config accepts, ordered_by_dependency
\* terminates for every requested list and both flags (within two passes per
\* member of the working list and one more), and what it returns
\* holds every member of the working list as it is at the end (the requested
\* containers, the dependents joined to them and the dependencies appended
\* during the ordering)
C34_TerminatesAndCovers ==
    call.called =>
        /\ call.terminated
        /\ call.passes <= 2 * Len(call.working) + 1
        /\ SeqSet(call.containers) \subseteq SeqSet(call.working)
        /\ SeqSet(call.working) = SeqSet(ordered_result)
        /\ ordered_result = ordered_by_dependency(call.containers,
               call.add_dependencies, call.add_reverse_dependencies, call.set_order)

\* the middle of the chain 3 -> 2 -> 1 was requested with both flags: its
\* dependent 3 joined the list, its dependency 1 was appended while ordering
C34_Witness ==
    /\ call.called
    /\ call.containers = <<2>>
    /\ call.add_dependencies /\ call.add_reverse_dependencies
    /\ InSeq(2, links[3]) /\ InSeq(1, links[2])
    /\ call.terminated
    /\ SeqSet(ordered_result) = {1, 2, 3}
    /\ call.passes > 1

\* ------------------------------------------- claims: the frame of a restart
\* the closure of the request: what may be stopped and what may be started
StopClosure ==
    IF ignore_dependencies
    THEN SeqSet(requested_containers)
    ELSE SeqSet(requested_containers) \cup Dependents(SeqSet(requested_containers))
StartClosure ==
    StopClosure \cup UNION {Dependencies(c) : c \in StopClosure}

\* C39: stop_many and restart_many call stop() only on the requested
\* containers and, without --ignore-dependencies, on the containers that
\* link to them directly or transitively; start() only on containers that
\* were handed to stop() and on their direct or transitive link targets; no
\* step changes whether a container outside of these is live
C39_Inv ==
    /\ SeqSet(stop_calls) \subseteq StopClosure
    /\ SeqSet(start_calls) \subseteq
           SeqSet(stop_calls) \cup UNION {Dependencies(c) : c \in SeqSet(stop_calls)}
    /\ SeqSet(start_calls) \subseteq StartClosure
C39_Step ==
    /\ stop_calls' # stop_calls => running' \ StopClosure = running \ StopClosure
    /\ \A c \in Containers \ StartClosure' : c \in running' <=> c \in running
C40_GetStatusTotal ==
    Evaluated => status.status \in {"OKAY", "STARTING", "FAILED", "MISSING"}

\* ------------------------------- specification: monitoring with a long history
\* status.json after many runs on one container: all runs found it OKAY, or
\* FAILED and OKAY in turn, or all but the oldest found it OKAY
LongPatterns == {"steady", "alternating", "oldest differs"}
LongHistoryOf(len, pattern) ==
    [k \in 1..len |->
        [n \in {LowerCaseOrder[1]} |->
            CASE pattern = "steady" -> "OKAY"
              [] pattern = "alternating" -> IF k % 2 = 1 THEN "FAILED" ELSE "OKAY"
              [] OTHER -> IF k = len THEN "MISSING" ELSE "OKAY"]]
LongHistories ==
    {LongHistoryOf(len, pattern) :
        len \in LongHistory..STATUS_HISTORY_LENGTH, pattern \in LongPatterns}

InitCronLong ==
    /\ CronAlone
    /\ monitored = {LowerCaseOrder[1]}
    /\ status_json \in LongHistories
    /\ status_history_list = <<>>
    /\ changes_to_report = FALSE
    /\ current_status_list = <<>>
    /\ mail_sent = FALSE
    /\ cron_outcome = "none"
    /\ returncode = 0
    /\ shutting_down = FALSE
    /\ cron_runs = 0

SpecCronLong == InitCronLong /\ [][NextCron]_vars

\* C35: status.json never holds more than STATUS_HISTORY_LENGTH snapshots; a
\* run that saves writes its own snapshot in front of the snapshots it read,
\* in their order, cut after the STATUS_HISTORY_LENGTH newest; nothing else
\* changes status.json
C35_Capped == Len(status_json) <= STATUS_HISTORY_LENGTH
C35_Step ==
    IF cron_outcome = "none" /\ cron_outcome' = "saved"
    THEN LET own == status_history_list'[1]
             all == <<own>> \o status_json
         IN  /\ Len(status_json') =
                    IF Len(all) > STATUS_HISTORY_LENGTH
                    THEN STATUS_HISTORY_LENGTH ELSE Len(all)
             /\ \A k \in 1..Len(status_json') : status_json'[k] = all[k]
    ELSE status_json' = status_json
C35_HistoryCapped == []C35_Capped /\ [][C35_Step]_vars

\* a run on a full history whose oldest snapshot was MISSING: the run saw it
\* as the 21st entry of its window and saved the 20 newer ones
C35_Witness ==
    /\ cron_outcome = "saved"
    /\ Len(status_history_list) = STATUS_HISTORY_LENGTH + 1
    /\ status_history_list[STATUS_HISTORY_LENGTH + 1][LowerCaseOrder[1]] = "MISSING"
    /\ Len(status_json) = STATUS_HISTORY_LENGTH
    /\ status_json[1] = status_history_list[1]
    /\ \A k \in 1..Len(status_json) :
           LowerCaseOrder[1] \in DOMAIN status_json[k] =>
               status_json[k][LowerCaseOrder[1]] # "MISSING"

\* ------------------------------------------- claims: the monitoring script again
\* C36: a monitoring run to which kastenwesen status returned 42, or which
\* found the system shutting down, sends no mail and leaves status.json as
\* it was
C36_Inv ==
    cron_outcome # "none" /\ (returncode = 42 \/ shutting_down) => ~mail_sent
C36_Step ==
    cron_outcome = "none" /\ cron_outcome' # "none"
        /\ (returncode' = 42 \/ shutting_down')
    => status_json' = status_json /\ ~mail_sent'
C36_SuppressedRunIsSilent == []C36_Inv /\ [][C36_Step]_vars

\* a run during shutdown saw a change worth a mail and a history to save,
\* and did neither
C36_Witness ==
    /\ cron_outcome = "suppressed"
    /\ shutting_down /\ returncode = 1
    /\ changes_to_report
    /\ ~mail_sent
    /\ status_json # <<>>
    /\ Len(status_history_list) = Len(status_json) + 1

ReadOnly(p) == cmdline[p] \in ReadOnlyCmdlines /\ lpc[p] \notin {"none", "other"}

\* a read-only invocation never waits for the lock: it is at no step of lock()
C31_NeverInLock ==
    \A p \in Pids :
        ReadOnly(p) =>
            lpc[p] \in {"init", "read_cmdline", "constructed", "readonly"}

\* an invocation that started while another had returned from lock(), and
\* that has lived since, finds other_instance_running true
C31_Detects ==
    \A p \in Pids :
        ReadOnly(p) /\ lpc[p] = "readonly" /\ locked_at_start[p] # 0 =>
            other_instance_running[p]

\* the open() of the command-line record in __init__ does not fail
C31_ConstructorDoesNotRaise ==
    \A p \in Pids :
        ReadOnly(p) /\ lpc[p] = "read_cmdline" => cmdfile # "absent"

\* C31: a read-only invocation never waits for the lock and never ends
\* because of the state of the lock records, however its steps interleave
\* with the lock() of a mutating invocation; when a mutating invocation has
\* returned from lock() and lives, a read-only invocation that starts then
\* finds other_instance_running true, warns and goes on
C31_ReadOnlyUnhindered ==
    /\ C31_NeverInLock
    /\ C31_Detects
    /\ C31_ConstructorDoesNotRaise

\* a read-only invocation started while the lock was held and went on with
\* the warning
C31_DetectsWitness ==
    \E p \in Pids :
        /\ ReadOnly(p) /\ lpc[p] = "readonly"
        /\ locked_at_start[p] # 0
        /\ lpc[locked_at_start[p]] = "locked"
        /\ other_instance_running[p]

\* ------------------------------------- specification: one action after another
\* kastenwesen status, rebuild, stop and restart, each on all containers, one
\* process after the other, from a host on which nothing is built and nothing
\* runs (example-config/run_tests.py, lines 43-52).  Every container is a
\* DockerContainer; each of its tests passes exactly when the container is
\* live.
NoLinks == [c \in Containers |-> <<>>]
ChainLinks == [c \in Containers |-> IF c = 1 THEN <<>> ELSE <<c - 1>>]
TestCounts == 0..1

\* what get_status asks container c; time_running() is read only when a live
\* container's tests fail
ProbeOf(c) ==
    [is_built |-> c \in is_built,
     only_build |-> only_build[c],
     tests |-> [k \in 1..ntests[c] |-> c \in running],
     is_running |-> c \in running,
     time_running |-> IF c \in running
                      THEN [kind |-> "seconds", seconds |-> 0]
                      ELSE NoTime,
     startup_gracetime |-> DEFAULT_STARTUP_GRACETIME]

\* print_status_and_exit, lines 1076-1121, without another instance: the exit
\* code for the given containers
StatusExit(given) ==
    IF failed_containers([k \in 1..Len(given) |-> get_status(ProbeOf(given[k]))])
    THEN 1
    ELSE 0

InitLifecycle ==
    /\ links \in {NoLinks, ChainLinks}
    /\ only_build \in [Containers -> BOOLEAN]
    /\ ResolverIdle
    /\ OrchIdle
    /\ LockIdle
    /\ EvalIdle
    /\ StatusIdle
    /\ CronIdle
    /\ CleanupIdle
    /\ StartupIdle
    /\ RebuildIdle
    /\ InstanceIdle
    /\ command = "none"
    /\ last_command = "none"
    /\ status_exit = -1
    /\ run_no = 0
    /\ ntests \in [Containers -> TestCounts]

NoProcess == command = "none" /\ opc = "idle" /\ bpc = "idle"

\* kastenwesen status: main, lines 1233-1238
LifeStatus ==
    /\ NoProcess
    /\ status_exit' = StatusExit(CONFIG_CONTAINERS)
    /\ UNCHANGED <<command, last_command, run_no, ntests>>
    /\ UNCHANGED notLife

\* kastenwesen rebuild [--missing]: main, line 1226, calls rebuild_many
LifeRebuild ==
    /\ NoProcess
    /\ command' = "rebuild"
    /\ status_exit' = -1
    /\ action_given' = CONFIG_CONTAINERS
    /\ only_missing' \in BOOLEAN
    /\ build_pos' = 0
    /\ build_calls' = <<>>
    /\ bpc' = "building"
    /\ UNCHANGED <<last_command, run_no, ntests, is_built>>
    /\ UNCHANGED <<configVars, resolverVars, orchVars, lockVars, evalVars, statusVars,
                   cronVars, cleanupVars, startupVars, instanceVars>>

\* kastenwesen stop and kastenwesen restart: main, lines 1230 and 1246,
\* entering stop_many (lines 941-953)
LifeInvoke(cmd) ==
    /\ NoProcess
    /\ command' = cmd
    /\ status_exit' = -1
    /\ \E ignore \in BOOLEAN :
       \E set_order \in SetOrders(CONFIG_CONTAINERS, ~ignore) :
          /\ requested_containers' = CONFIG_CONTAINERS
          /\ ignore_dependencies' = ignore
          /\ stop_containers' = StopList(CONFIG_CONTAINERS, ignore, set_order)
    /\ opc' = "stopping"
    /\ UNCHANGED <<last_command, run_no, ntests>>
    /\ UNCHANGED <<running, action, stop_calls, start_containers, start_pos,
                   start_calls>>
    /\ UNCHANGED <<configVars, resolverVars, lockVars, evalVars, statusVars, cronVars,
                   cleanupVars, startupVars, rebuildVars, instanceVars>>

\* stop_many returns to the stop action, or to restart_many
LifeStopReturn == command = "stop" /\ StopReturn
LifeRestartOrder == command \in {"rebuild", "restart"} /\ RestartOrder

\* the process ends.  The stop action ends when stop_many has returned; the
\* rebuild action goes on to print_status_and_exit for the containers
\* restart_many returned, the restart action for the given ones (lines
\* 1227-1232); an uncaught exception and print_fatal end the process where
\* they happen.
LifeExit ==
    /\ command # "none"
    /\ opc \in {"done", "fatal"} \/ bpc = "crashed"
    /\ command' = "none"
    /\ last_command' = IF opc = "done" THEN command ELSE "failed"
    /\ status_exit' = IF opc = "done" /\ command = "rebuild"
                      THEN StatusExit(start_containers)
                      ELSE IF opc = "done" /\ command = "restart"
                      THEN StatusExit(requested_containers)
                      ELSE -1
    /\ opc' = "idle"
    /\ action' = "none"
    /\ requested_containers' = <<>>
    /\ ignore_dependencies' = FALSE
    /\ stop_containers' = <<>>
    /\ stop_calls' = <<>>
    /\ start_containers' = <<>>
    /\ start_pos' = 0
    /\ start_calls' = <<>>
    /\ action_given' = <<>>
    /\ only_missing' = FALSE
    /\ build_pos' = 0
    /\ build_calls' = <<>>
    /\ bpc' = "idle"
    /\ UNCHANGED <<running, is_built, run_no, ntests>>
    /\ UNCHANGED <<configVars, resolverVars, lockVars, evalVars, statusVars, cronVars,
                   cleanupVars, startupVars, instanceVars>>

NextLifecycle ==
    \/ LifeStatus
    \/ LifeRebuild
    \/ \E cmd \in {"stop", "restart"} : LifeInvoke(cmd)
    \/ BuildSkip
    \/ Build
    \/ BuildFails
    \/ RebuildRestart
    \/ StopStep
    \/ LifeStopReturn
    \/ LifeRestartOrder
    \/ StartSkip
    \/ StartBuilt
    \/ StartUnbuilt
    \/ StartReturn
    \/ LifeExit

SpecLifecycle == InitLifecycle /\ [][NextLifecycle]_vars

\* the last status was computed for the state the host is in now
StatusKnown == NoProcess /\ status_exit # -1
\* some configured container is one that runs
SomeContainerRuns == \E c \in Containers : ~only_build[c]
\* no only-build container has tests
OnlyBuildUntested == \A c \in Containers : only_build[c] => ntests[c] = 0

TrackedLinks ==
    {l \in [Tracked -> {<<>>} \cup {<<d>> : d \in Tracked}] :
        \A c \in Tracked : \A k \in 1..Len(l[c]) : l[c][k] < c}
TrackedLists == {ListOf(S, CONFIG_CONTAINERS) : S \in (SUBSET Tracked) \ {{}}}

\* an earlier, uninterrupted start left container c live, its id file and
\* its name file naming the same instance, or c was never started
InitRecover ==
    /\ tlinks \in TrackedLinks
    /\ links = [c \in Containers |-> IF c \in Tracked THEN tlinks[c] ELSE <<>>]
    /\ only_build \in {o \in [Containers -> BOOLEAN] :
                          \A c \in Containers \ Tracked : ~o[c]}
    /\ ResolverIdle
    /\ OrchIdle
    /\ LockIdle
    /\ EvalIdle
    /\ StatusIdle
    /\ CronIdle
    /\ CleanupIdle
    /\ StartupIdle
    /\ RebuildIdle
    /\ LifeIdle
    /\ image_built = [c \in Tracked |-> TRUE]
    /\ \E live \in SUBSET {c \in Tracked : ~only_build[c]} :
          /\ id_file = [c \in Tracked |-> IF c \in live THEN c ELSE 0]
          /\ name_file = [c \in Tracked |-> IF c \in live THEN c ELSE 0]
          /\ inst = [i \in Instances |->
                        IF i \in live THEN LiveInstance(i, FALSE) ELSE FreeInstance]
    /\ last = NoMethod

\* main, line 1230: restart_many enters stop_many (lines 941-953); the
\* second process is given what the first one was given
RecInvoke ==
    /\ opc \in {"idle", "killed"}
    /\ run_no < 2
    /\ run_no' = run_no + 1
    /\ IF run_no = 0
       THEN /\ requested_containers' \in TrackedLists
            /\ ignore_dependencies' \in BOOLEAN
       ELSE UNCHANGED <<requested_containers, ignore_dependencies>>
    /\ \E set_order \in SetOrders(requested_containers', ~ignore_dependencies') :
          stop_containers' =
              StopList(requested_containers', ignore_dependencies', set_order)
    /\ stop_calls' = <<>>
    /\ start_containers' = <<>>
    /\ start_pos' = 0
    /\ start_calls' = <<>>
    /\ opc' = "stopping"
    /\ UNCHANGED <<running, action, command, last_command, status_exit, ntests>>
    /\ UNCHANGED <<configVars, resolverVars, lockVars, evalVars, statusVars, cronVars,
                   cleanupVars, startupVars, rebuildVars, instanceVars>>

\* what a step of restart_many leaves alone besides the records
RecFrame ==
    /\ UNCHANGED <<running, action, requested_containers, ignore_dependencies,
                   stop_containers, start_containers>>
    /\ UNCHANGED <<configVars, resolverVars, lockVars, evalVars, statusVars, cronVars,
                   cleanupVars, startupVars, rebuildVars, lifeVars>>
    /\ UNCHANGED <<image_built, tlinks>>

\* stop_many, lines 954-955: container.stop() on the next container
RecStop ==
    /\ opc = "stopping"
    /\ Len(stop_calls) < Len(stop_containers)
    /\ LET container == stop_containers[Len(stop_calls) + 1]
       IN  /\ StopCall(container)
           /\ stop_calls' = Append(stop_calls, container)
    /\ UNCHANGED <<opc, start_pos, start_calls, id_file, name_file>>
    /\ RecFrame

\* restart_many, lines 911-914, with is_running() read from the records
RecStartsContainer(container) ==
    /\ ~only_build[container]
    /\ (InSeq(container, stop_containers) \/ ~RecordedLive(container))

InRecStartLoop == opc = "starting" /\ start_pos < Len(start_containers)

\* restart_many, lines 910-914: a container that is not started
RecStartSkip ==
    /\ InRecStartLoop
    /\ ~RecStartsContainer(StartCurrent)
    /\ start_pos' = start_pos + 1
    /\ UNCHANGED <<opc, stop_calls, start_calls, id_file, name_file, inst, last>>
    /\ RecFrame

\* start(), lines 620-647, goes through: docker run writes the id file, the
\* name file is written when docker run has returned
RecStart ==
    /\ InRecStartLoop
    /\ RecStartsContainer(StartCurrent)
    /\ StartRuns(StartCurrent)
    /\ inst' = [inst EXCEPT ![NewId] = LiveInstance(StartCurrent, FALSE)]
    /\ id_file' = [id_file EXCEPT ![StartCurrent] = NewId]
    /\ name_file' = [name_file EXCEPT ![StartCurrent] = NewId]
    /\ last' = Wiring(StartCurrent)
    /\ start_calls' = Append(start_calls, StartCurrent)
    /\ start_pos' = start_pos + 1
    /\ UNCHANGED <<opc, stop_calls>>
    /\ RecFrame

\* start(), lines 624-625: is_running() is true and start raises 'container
\* is already running'; restart_many catches ImageNotFound only
RecStartAlreadyRunning ==
    /\ InRecStartLoop
    /\ RecStartsContainer(StartCurrent)
    /\ AlreadyRunning(StartCurrent)
    /\ last' = Method("start", StartCurrent, "already running")
    /\ start_calls' = Append(start_calls, StartCurrent)
    /\ opc' = "crashed"
    /\ UNCHANGED <<stop_calls, start_pos, id_file, name_file, inst>>
    /\ RecFrame

\* the first process is terminated inside start(): after the id file was
\* moved away (line 630), or after docker run has created the container and
\* written the id file and before the name file is written (lines 646-647)
RecStartKilled ==
    /\ run_no = 1
    /\ InRecStartLoop
    /\ RecStartsContainer(StartCurrent)
    /\ StartRuns(StartCurrent)
    /\ \/ /\ id_file' = [id_file EXCEPT ![StartCurrent] = 0]
          /\ inst' = inst
       \/ /\ id_file' = [id_file EXCEPT ![StartCurrent] = NewId]
          /\ inst' = [inst EXCEPT ![NewId] = LiveInstance(StartCurrent, FALSE)]
    /\ last' = Method("start", StartCurrent, "killed")
    /\ start_calls' = Append(start_calls, StartCurrent)
    /\ opc' = "killed"
    /\ UNCHANGED <<stop_calls, start_pos, name_file>>
    /\ RecFrame

\* the first process is terminated between two method calls
RecKill ==
    /\ run_no = 1
    /\ opc \in {"stopping", "starting"}
    /\ opc' = "killed"
    /\ UNCHANGED <<stop_calls, start_pos, start_calls, id_file, name_file, inst, last>>
    /\ RecFrame

NextRecover ==
    \/ RecInvoke
    \/ RecStop
    \/ RestartOrder
    \/ RecStartSkip
    \/ RecStart
    \/ RecStartAlreadyRunning
    \/ RecStartKilled
    \/ RecKill
    \/ StartReturn

SpecRecover == InitRecover /\ [][NextRecover]_vars

\* the second, uninterrupted restart_many has ended: it returned, or an
\* exception ended it
SecondRunEnded == run_no = 2 /\ opc \in {"done", "crashed"}

\* C32: a restart_many that is interrupted by process termination at any
\* step leaves a state from which a following uninterrupted restart_many of
\* the same containers, with every image present and docker succeeding, ends
\* with every container of its start list that is not only-build live
C32_Reconcilable ==
    SecondRunEnded =>
        \A k \in 1..Len(start_containers) :
            ~only_build[start_containers[k]] => RecordedLive(start_containers[k])

\* C38: restart_many never calls start() on a container that is live at
\* that moment, so start() never raises 'container is already running' in a
\* restart_many
C38_NeverStartsLive == last.result # "already running"

=============================================================================
